---- MODULE Spec2Model ----
(***************************************************************************)
(* A model of the gRPC gateway engine of keicoqk/gateway: the descriptor    *)
(* pool (core/inline_descriptor.go), the inline and the file-backed method  *)
(* resolvers and Invoker.Invoke.                                            *)
(*                                                                          *)
(* Go strings are sequences of one-character strings, so that TrimSpace,    *)
(* TrimPrefix, Contains and SplitN are computed as the code computes them.  *)
(* Descriptor bytes are named blobs ("" is the empty byte slice); what a    *)
(* blob unmarshals to is given by FileDescriptorSet.                        *)
(***************************************************************************)
EXTENDS Integers, Sequences, FiniteSets, TLC

(***************************************************************************)
(* Bounds of the model.                                                     *)
(***************************************************************************)
\* Invoke calls started in one behaviour.
MaxCalls == 3

\* Direct calls of InlineMethodResolver.Resolve started in one behaviour.
MaxResolves == 4

\* The goroutines serving requests.
Procs == {"g1", "g2"}

(***************************************************************************)
(* strings                                                                  *)
(***************************************************************************)
HasPrefix(s, pre) ==
    /\ Len(s) >= Len(pre)
    /\ SubSeq(s, 1, Len(pre)) = pre

TrimPrefix(s, pre) ==
    IF HasPrefix(s, pre) THEN SubSeq(s, Len(pre) + 1, Len(s)) ELSE s

RECURSIVE TrimLeft(_)
TrimLeft(s) ==
    IF s # <<>> /\ Head(s) = " " THEN TrimLeft(Tail(s)) ELSE s

RECURSIVE TrimRight(_)
TrimRight(s) ==
    IF s # <<>> /\ s[Len(s)] = " " THEN TrimRight(SubSeq(s, 1, Len(s) - 1)) ELSE s

TrimSpace(s) == TrimRight(TrimLeft(s))

Contains(s, c) == \E i \in 1..Len(s) : s[i] = c

\* Position of the first c in s (s contains c).
Index(s, c) == CHOOSE i \in 1..Len(s) : s[i] = c /\ \A j \in 1..(i - 1) : s[j] # c

\* strings.SplitN(s, c, 2)
SplitN2(s, c) ==
    IF Contains(s, c)
    THEN <<SubSeq(s, 1, Index(s, c) - 1), SubSeq(s, Index(s, c) + 1, Len(s))>>
    ELSE <<s>>

\* ParseFullMethodName: "/package.Service/Method" -> service, method.
ParseFullMethodName(fullMethodName) ==
    LET parts == SplitN2(TrimPrefix(fullMethodName, <<"/">>), "/")
    IN  IF Len(parts) # 2
        THEN [err |-> "invalid full method name", serviceName |-> <<>>, methodName |-> <<>>]
        ELSE [err |-> "", serviceName |-> parts[1], methodName |-> parts[2]]

(***************************************************************************)
(* descriptors                                                              *)
(***************************************************************************)
\* desc.MethodDescriptor: its name and its two streaming flags.
Meth(name, cs, ss) == [name |-> name, cs |-> cs, ss |-> ss]

\* desc.ServiceDescriptor of the descriptor set unmarshalled from blob src.
Svc(src, pkg, name, methods) ==
    [src |-> src, pkg |-> pkg, name |-> name, methods |-> methods]

\* svc.GetFullyQualifiedName()
GetFullyQualifiedName(svc) ==
    IF svc.pkg = <<>> THEN svc.name ELSE svc.pkg \o <<".">> \o svc.name

\* svc.GetName()
GetName(svc) == svc.name

NoMethod == [src |-> "", svc |-> <<>>, name |-> <<>>, cs |-> FALSE, ss |-> FALSE]

\* The method descriptor of method m of svc: it knows its service and its file set.
MethodOf(svc, m) ==
    [src |-> svc.src, svc |-> GetFullyQualifiedName(svc), name |-> m.name,
     cs |-> m.cs, ss |-> m.ss]

\* svc.FindMethodByName(name): the descriptor, or NoMethod for nil.
FindMethodByName(svc, name) ==
    IF \E m \in svc.methods : m.name = name
    THEN MethodOf(svc, CHOOSE m \in svc.methods : m.name = name)
    ELSE NoMethod

\* The descriptor blobs of the model.  b1: service p.S with a unary M and a
\* server-streaming N.  b2: a later version of the same interface, M of p.S
\* now client-streaming and N unary, together with q.S (so that the short
\* name S is ambiguous in b2).  Any other non-empty blob does not unmarshal.
FileDescriptorSet(b) ==
    CASE b = "b1" ->
           {Svc("b1", <<"p">>, <<"S">>,
                {Meth(<<"M">>, FALSE, FALSE), Meth(<<"N">>, FALSE, TRUE)})}
      [] b = "b2" ->
           {Svc("b2", <<"p">>, <<"S">>,
                {Meth(<<"M">>, TRUE, FALSE), Meth(<<"N">>, FALSE, FALSE)}),
            Svc("b2", <<"q">>, <<"S">>, {Meth(<<"M">>, FALSE, FALSE)})}
      [] b = "echo" ->
           {Svc("echo", <<"echo">>, <<"EchoService">>,
                {Meth(<<"Echo">>, FALSE, FALSE)})}
      [] OTHER -> {}

\* proto.Unmarshal / desc.CreateFileDescriptorsFromSet: the error, "" for none.
ParseErr(b) ==
    IF b = "bad" THEN "unmarshal FileDescriptorSet" ELSE ""

(***************************************************************************)
(* InlineDescriptorPool                                                     *)
(***************************************************************************)
\* A Go map: a function on the keys present.
EmptyMap == <<>>

MapGet(m, k, default) == IF k \in DOMAIN m THEN m[k] ELSE default

\* A faulty variant of MapPut: the map is replaced by one of the entry alone.
MapPutAlone(m, k, v) == [x \in {k} |-> v]

\* m[k] = v
MapPut(m, k, v) == [x \in (DOMAIN m) \cup {k} |-> IF x = k THEN v ELSE m[x]]

\* &InlineDescriptorPool{...} with both maps made and empty.  src names the
\* blob the pool is being built from.
EmptyPool(src) ==
    [src |-> src, servicesByFQN |-> EmptyMap, servicesByName |-> EmptyMap]

\* A faulty variant of AddService: the list of a short name is set, not appended to.
AddServiceLastWins(pool, svc) ==
    LET fqn == GetFullyQualifiedName(svc)
    IN  [pool EXCEPT
           !.servicesByFQN = MapPut(MapPut(@, fqn, svc), <<".">> \o fqn, svc),
           !.servicesByName = MapPut(@, GetName(svc), {svc})]

\* One round of the loop of newInlineDescriptorPool.  servicesByName keeps the
\* services of a short name as a set: the order of the Go slice follows the
\* iteration order of a Go map and is not determined.
AddService(pool, svc) ==
    LET fqn == GetFullyQualifiedName(svc)
    IN  [pool EXCEPT
           !.servicesByFQN = MapPut(MapPut(@, fqn, svc), <<".">> \o fqn, svc),
           !.servicesByName =
               MapPut(@, GetName(svc), MapGet(@, GetName(svc), {}) \cup {svc})]

RECURSIVE AddServices(_, _)
AddServices(pool, svcs) ==
    IF svcs = {} THEN pool
    ELSE LET svc == CHOOSE s \in svcs : TRUE
         IN  AddServices(AddService(pool, svc), svcs \ {svc})

\* The pool newInlineDescriptorPool returns for well-formed bytes b.
NewInlineDescriptorPool(b) == AddServices(EmptyPool(b), FileDescriptorSet(b))

NoResolved == [Method |-> NoMethod, ServiceFQN |-> <<>>]

ResolveErr(e, names) == [err |-> e, rm |-> NoResolved, names |-> names]

\* A faulty variant of LookupService: the short names are not looked at.
LookupServiceByFQN(pool, service) ==
    IF service \in DOMAIN pool.servicesByFQN
    THEN [err |-> "", svc |-> pool.servicesByFQN[service], names |-> {}]
    ELSE IF (<<".">> \o service) \in DOMAIN pool.servicesByFQN
    THEN [err |-> "", svc |-> pool.servicesByFQN[<<".">> \o service], names |-> {}]
    ELSE [err |-> "service not found in inline descriptor",
          svc |-> Svc("", <<>>, <<>>, {}), names |-> {}]

\* The service lookup of InlineDescriptorPool.Resolve: exact name, then the
\* name with a leading dot, then the short name.
LookupService(pool, service) ==
    LET list == MapGet(pool.servicesByName, service, {})
    IN  IF service \in DOMAIN pool.servicesByFQN
        THEN [err |-> "", svc |-> pool.servicesByFQN[service], names |-> {}]
        ELSE IF (<<".">> \o service) \in DOMAIN pool.servicesByFQN
        THEN [err |-> "", svc |-> pool.servicesByFQN[<<".">> \o service], names |-> {}]
        ELSE IF Cardinality(list) = 1
        THEN [err |-> "", svc |-> CHOOSE s \in list : TRUE, names |-> {}]
        ELSE IF Cardinality(list) > 1
        THEN [err |-> "ambiguous service name", svc |-> Svc("", <<>>, <<>>, {}),
              names |-> {GetFullyQualifiedName(s) : s \in list}]
        ELSE [err |-> "service not found in inline descriptor",
              svc |-> Svc("", <<>>, <<>>, {}), names |-> {}]

\* A faulty variant of Normalize: a method given as a full path is not split.
NormalizeNoSplit(service0, method0) ==
    <<TrimPrefix(TrimPrefix(TrimSpace(service0), <<"/">>), <<".">>),
      TrimPrefix(TrimSpace(method0), <<"/">>)>>

\* The normalisation of InlineDescriptorPool.Resolve: <<service, method>>.
Normalize(service0, method0) ==
    LET service1 == TrimSpace(service0)
        method1 == TrimSpace(method0)
        parsed == ParseFullMethodName(method1)
        split == Contains(method1, "/") /\ parsed.err = "" /\ service1 = <<>>
        service2 == IF split THEN parsed.serviceName ELSE service1
        method2 == IF split THEN parsed.methodName ELSE method1
    IN  <<TrimPrefix(TrimPrefix(service2, <<"/">>), <<".">>),
          TrimPrefix(method2, <<"/">>)>>

\* InlineDescriptorPool.Resolve
PoolResolve(pool, service0, method0) ==
    LET service == Normalize(service0, method0)[1]
        method == Normalize(service0, method0)[2]
        found == LookupService(pool, service)
        md == FindMethodByName(found.svc, method)
    IN  IF service = <<>> \/ method = <<>>
        THEN ResolveErr("missing service or method", {})
        ELSE IF found.err # ""
        THEN ResolveErr(found.err, found.names)
        ELSE IF md = NoMethod
        THEN ResolveErr("method not found in service", {GetFullyQualifiedName(found.svc)})
        ELSE [err |-> "",
              rm |-> [Method |-> md, ServiceFQN |-> GetFullyQualifiedName(found.svc)],
              names |-> {}]

(***************************************************************************)
(* The state of one Invoker and of the goroutines calling it.               *)
(***************************************************************************)
VARIABLES
    pools,      \* InlineMethodResolver.pools: key -> pool
    cache,      \* MethodResolver.cache: full method name -> method descriptor
    conns,      \* the open gRPC connections, named by the goroutine that dialed
    pc,         \* per goroutine: the stage of its call
    frame,      \* per goroutine: the request and the locals of its call
    nCalls,     \* calls started
    supplied,   \* history: the keys under which parsed bytes were stored
    last,       \* history: per key, the last undisturbed resolution with bytes
    probe       \* a single InlineDescriptorPool.Resolve on a pool (SpecPool)

vars == <<pools, cache, conns, pc, frame, nCalls, supplied, last, probe>>

\* sha256.Sum256 + hex.EncodeToString: a digest per blob, no two alike.
Sha256Hex(b) ==
    CASE b = "b1" -> "5d1f"
      [] b = "b2" -> "a3c7"
      [] b = "bad" -> "e09b"
      [] OTHER -> "e3b0"

\* A faulty variant of DeriveKey: the digest is preferred whenever bytes are given.
DeriveKeyDigestFirst(descriptorSetBytes, descriptorID) ==
    IF descriptorSetBytes # ""
    THEN Sha256Hex(descriptorSetBytes)
    ELSE descriptorID

\* The key InlineMethodResolver.Resolve derives.
DeriveKey(descriptorSetBytes, descriptorID) ==
    IF descriptorID = "" /\ descriptorSetBytes # ""
    THEN Sha256Hex(descriptorSetBytes)
    ELSE descriptorID

\* A faulty variant of IsStreaming: only the client-streaming flag is tested.
IsClientStreaming(md) == md.cs

\* Invoke's test of the resolved method.
IsStreaming(md) == md.cs \/ md.ss

\* JSONToMessage: the error of jsonpb.Unmarshal, "" for none.  The bodies of
\* the model are "{}" (decodes into any input type) and "{" (not JSON).
JSONToMessageErr(md, body) == IF body = "{}" THEN "" ELSE "json to message"

\* An InvokeRequest, or the arguments of a direct call of the inline resolver
\* (op = "Resolve").  Target and Body are drawn at the step of Invoke that
\* first reads them.
InlineRequest(op, bytes, id, service, method) ==
    [op |-> op, FullMethodName |-> <<>>,
     ServiceName |-> service, MethodName |-> method,
     InlineDescriptorSet |-> bytes, DescriptorID |-> id]

StaticRequest(name) ==
    [op |-> "Invoke", FullMethodName |-> name,
     ServiceName |-> <<>>, MethodName |-> <<>>,
     InlineDescriptorSet |-> "", DescriptorID |-> ""]

Bodies == {"{}", "{"}

\* <<service, method>> of the inline requests.
ServiceMethods ==
    {<< <<"p", ".", "S">>, <<"N">> >>,
     << <<"S">>, <<"M">> >>}

FullMethodNames ==
    {<<>>,
     <<"/", "p", ".", "S", "/", "M">>,
     <<"/", "p", ".", "S", "/", "N">>,
     <<"p", ".", "S", "/", "M">>,
     <<"/", "p", ".", "S">>,
     <<"/", "q", ".", "T", "/", "M">>}

\* Invoke takes the inline path for these: bytes or an identifier is given.
InvokeInlineRequests ==
    {InlineRequest("Invoke", b, "k", <<"p", ".", "S">>, <<"M">>) :
        b \in {"", "b1", "b2", "bad"}}
    \cup {InlineRequest("Invoke", "b1", "", <<"S">>, <<"M">>),
          InlineRequest("Invoke", "b1", "k", <<"p", ".", "S">>, <<>>)}

\* Direct calls of InlineMethodResolver.Resolve.  Under the identifier k:
\* b1, b2 or no bytes, for each service and method, and bytes that do not
\* parse.  With no identifier: b1, unparseable bytes, no bytes.  The digest
\* of b1 given as the identifier.
ResolveRequests ==
    {InlineRequest("Resolve", b, "k", sm[1], sm[2]) :
        b \in {"", "b1", "b2"}, sm \in ServiceMethods}
    \cup {InlineRequest("Resolve", b, "", <<"p", ".", "S">>, <<"N">>) :
            b \in {"", "b1", "bad"}}
    \cup {InlineRequest("Resolve", "bad", "k", <<"p", ".", "S">>, <<"N">>),
          InlineRequest("Resolve", "", Sha256Hex("b1"), <<"p", ".", "S">>, <<"N">>)}

InvokeStaticRequests == {StaticRequest(n) : n \in FullMethodNames}

\* The stages in which a goroutine has no call in progress: it has made none,
\* or its Invoke (Done, Failed) or its direct Resolve (Returned, Failed) ended.
Idle == {"idle", "Done", "Failed", "Returned"}

NoFrame ==
    [req |-> StaticRequest(<<>>), key |-> "", pool |-> EmptyPool(""),
     todo |-> {}, rm |-> NoResolved, retKey |-> "", body |-> "", err |-> "",
     conn |-> "", expect |-> NoResolved, disturbed |-> FALSE]

NoProbe == [svcs |-> {}, service |-> <<>>, method |-> <<>>, done |-> FALSE,
            out |-> ResolveErr("", {})]

Init ==
    /\ pools = EmptyMap
    /\ cache = EmptyMap
    /\ conns = {}
    /\ pc = [p \in Procs |-> "idle"]
    /\ frame = [p \in Procs |-> NoFrame]
    /\ nCalls = 0
    /\ supplied = {}
    /\ last = EmptyMap
    /\ probe = NoProbe

(***************************************************************************)
(* History variables.  They are keyed by the key Resolve is documented to  *)
(* cache a request under.  A call that carries bytes supplies them at its   *)
(* access to the cache: the read that finds a pool, or the write of the     *)
(* pool it parsed.  supplied holds the keys under which parsed bytes were   *)
(* stored.  frame.disturbed tells that, since the call's own access, other  *)
(* bytes were supplied under its key.  last[k] is the latest successful and *)
(* undisturbed resolution that carried bytes under k, kept until other      *)
(* bytes are supplied under k; frame.expect is what an identifier-only call *)
(* found there as it began.                                                 *)
(***************************************************************************)
SpecKey(r) ==
    IF r.DescriptorID # "" THEN r.DescriptorID ELSE Sha256Hex(r.InlineDescriptorSet)

InResolver == {"index", "store", "resolve"}

\* last, once bytes b are supplied under k.
Forget(k, b) ==
    IF k \in DOMAIN last /\ last[k].bytes # b
    THEN [x \in (DOMAIN last) \ {k} |-> last[x]]
    ELSE last

\* The calls past their cache access that bytes b supplied under k disturb.
Disturbed(p, k, b) ==
    {q \in Procs \ {p} :
        /\ pc[q] = "resolve"
        /\ SpecKey(frame[q].req) = k
        /\ frame[q].req.InlineDescriptorSet \notin {"", b}}

Expect(r) ==
    IF /\ r.InlineDescriptorSet = ""
       /\ SpecKey(r) \in DOMAIN last
       /\ last[SpecKey(r)].service = r.ServiceName
       /\ last[SpecKey(r)].method = r.MethodName
    THEN last[SpecKey(r)].rm
    ELSE NoResolved

Record(p, rm) ==
    IF frame[p].req.InlineDescriptorSet # "" /\ ~frame[p].disturbed
    THEN MapPut(last, SpecKey(frame[p].req),
                [bytes |-> frame[p].req.InlineDescriptorSet,
                 service |-> frame[p].req.ServiceName,
                 method |-> frame[p].req.MethodName, rm |-> rm])
    ELSE last

(***************************************************************************)
(* Invoker.Invoke, with the two resolvers it calls                          *)
(***************************************************************************)
CanStart(p) == pc[p] \in Idle /\ nCalls < MaxCalls

CanResolve(p) == pc[p] \in Idle /\ nCalls < MaxResolves

NewFrame(r) == [NoFrame EXCEPT !.req = r]

\* A call that fails: the error, and of the locals what Invoke still held.
Failed(f, e) ==
    [pc |-> "Failed",
     frame |-> [f EXCEPT !.err = e, !.key = "", !.pool = EmptyPool(""),
                         !.todo = {}, !.disturbed = FALSE]]

\* A faulty variant of ResolverLookup: a miss without bytes is not turned away, and the
\* empty bytes are parsed and cached.
ResolverLookupParsesEmpty(f) ==
    LET bytes == f.req.InlineDescriptorSet
        key == DeriveKey(bytes, f.req.DescriptorID)
        g == [f EXCEPT !.key = key]
    IN  IF key = ""
        THEN Failed(f, "empty descriptor id")
        ELSE IF key \in DOMAIN pools
        THEN [pc |-> "resolve", frame |-> [g EXCEPT !.pool = pools[key]]]
        ELSE IF ParseErr(bytes) # ""
        THEN Failed(g, ParseErr(bytes))
        ELSE [pc |-> IF FileDescriptorSet(bytes) = {} THEN "store" ELSE "index",
              frame |-> [g EXCEPT !.pool = EmptyPool(bytes),
                                  !.todo = FileDescriptorSet(bytes)]]

\* InlineMethodResolver.Resolve up to the pool it goes on with: the key, the
\* read of the cache under the read lock, and on a miss the parse of the bytes.
ResolverLookup(f) ==
    LET bytes == f.req.InlineDescriptorSet
        key == DeriveKey(bytes, f.req.DescriptorID)
        g == [f EXCEPT !.key = key]
    IN  IF key = ""
        THEN Failed(f, "empty descriptor id")
        ELSE IF key \in DOMAIN pools
        THEN [pc |-> "resolve", frame |-> [g EXCEPT !.pool = pools[key]]]
        ELSE IF bytes = ""
        THEN Failed(g, "descriptor not found for id")
        ELSE IF ParseErr(bytes) # ""
        THEN Failed(g, ParseErr(bytes))
        ELSE [pc |-> IF FileDescriptorSet(bytes) = {} THEN "store" ELSE "index",
              frame |-> [g EXCEPT !.pool = EmptyPool(bytes),
                                  !.todo = FileDescriptorSet(bytes)]]

\* What Invoke does with the method it resolved: streaming is rejected.  A
\* direct call of the resolver returns here.  The locals of the resolver are
\* gone, and from here on Invoke reads of the request only Target and Body.
AfterResolve(f, rm) ==
    LET g == [f EXCEPT !.rm = rm, !.key = "", !.pool = EmptyPool(""),
                       !.disturbed = FALSE]
    IN  IF f.req.op = "Resolve"
        THEN [pc |-> "Returned", frame |-> g]
        ELSE IF IsStreaming(rm.Method)
        THEN Failed(g, "streaming method not supported")
        ELSE [pc |-> "CodingRequest", frame |-> [g EXCEPT !.req = NoFrame.req]]

\* Goroutine p goes on to stage to.pc with the locals to.frame.
Go(p, to) ==
    /\ pc' = [pc EXCEPT ![p] = to.pc]
    /\ frame' = [frame EXCEPT ![p] = to.frame]

\* The same, for a step that is p's access to the cache: the request's
\* bytes, if it has any, are supplied under its key.
GoSupplying(p, to) ==
    LET b == to.frame.req.InlineDescriptorSet
        k == SpecKey(to.frame.req)
        supplies == b # "" /\ to.pc = "resolve"
    IN  /\ pc' = [pc EXCEPT ![p] = to.pc]
        /\ frame' = [q \in Procs |->
                        IF q = p THEN to.frame
                        ELSE IF supplies /\ q \in Disturbed(p, k, b)
                        THEN [frame[q] EXCEPT !.disturbed = TRUE]
                        ELSE frame[q]]
        /\ last' = IF supplies THEN Forget(k, b) ELSE last

\* Invoke with inline bytes or an identifier, up to the cache lookup.
InvokeInline(p) ==
    \E r \in InvokeInlineRequests :
        LET f == NewFrame(r)
            to == IF r.MethodName = <<>>
                  THEN Failed(f, "missing method for inline descriptor invocation")
                  ELSE ResolverLookup([f EXCEPT !.expect = Expect(r)])
        IN  /\ CanStart(p)
            /\ nCalls' = nCalls + 1
            /\ GoSupplying(p, to)
            /\ UNCHANGED <<pools, cache, conns, supplied, probe>>

\* A direct call of InlineMethodResolver.Resolve, up to the cache lookup.
ResolveInline(p) ==
    \E r \in ResolveRequests :
        /\ CanResolve(p)
        /\ nCalls' = nCalls + 1
        /\ GoSupplying(p, ResolverLookup([NewFrame(r) EXCEPT !.expect = Expect(r)]))
        /\ UNCHANGED <<pools, cache, conns, supplied, probe>>

\* A faulty variant of IndexService: the finished pool is used without being stored.
IndexServiceSkipsStore(p) ==
    /\ pc[p] = "index"
    /\ \E svc \in frame[p].todo :
          Go(p, [pc |-> IF frame[p].todo = {svc} THEN "resolve" ELSE "index",
                 frame |-> [frame[p] EXCEPT !.pool = AddService(@, svc),
                                            !.todo = @ \ {svc}]])
    /\ UNCHANGED <<pools, cache, conns, nCalls, supplied, last, probe>>

\* newInlineDescriptorPool: one round of the loop over the services.
IndexService(p) ==
    /\ pc[p] = "index"
    /\ \E svc \in frame[p].todo :
          Go(p, [pc |-> IF frame[p].todo = {svc} THEN "store" ELSE "index",
                 frame |-> [frame[p] EXCEPT !.pool = AddService(@, svc),
                                            !.todo = @ \ {svc}]])
    /\ UNCHANGED <<pools, cache, conns, nCalls, supplied, last, probe>>

\* A faulty variant of StorePool: an entry that is there is kept.
StorePoolKeepsFirst(p) ==
    /\ pc[p] = "store"
    /\ pools' = IF frame[p].key \in DOMAIN pools THEN pools
                ELSE MapPut(pools, frame[p].key, frame[p].pool)
    /\ supplied' = supplied \cup {SpecKey(frame[p].req)}
    /\ GoSupplying(p, [pc |-> "resolve", frame |-> frame[p]])
    /\ UNCHANGED <<cache, conns, nCalls, probe>>

\* r.pools[key] = pool, under the write lock.
StorePool(p) ==
    /\ pc[p] = "store"
    /\ pools' = MapPut(pools, frame[p].key, frame[p].pool)
    /\ supplied' = supplied \cup {SpecKey(frame[p].req)}
    /\ GoSupplying(p, [pc |-> "resolve", frame |-> frame[p]])
    /\ UNCHANGED <<cache, conns, nCalls, probe>>

\* A faulty variant of ResolveMethod: the pool is read from the cache again.
ResolveMethodFromCache(p) ==
    LET f == frame[p]
        res == PoolResolve(pools[f.key], f.req.ServiceName, f.req.MethodName)
    IN  /\ pc[p] = "resolve"
        /\ Go(p, IF res.err # "" THEN Failed(f, res.err)
                 ELSE AfterResolve([f EXCEPT !.retKey = f.key], res.rm))
        /\ last' = IF res.err # "" THEN last ELSE Record(p, res.rm)
        /\ UNCHANGED <<pools, cache, conns, nCalls, supplied, probe>>

\* pool.Resolve(service, method) on the pool the call holds, and the return.
ResolveMethod(p) ==
    LET f == frame[p]
        res == PoolResolve(f.pool, f.req.ServiceName, f.req.MethodName)
    IN  /\ pc[p] = "resolve"
        /\ Go(p, IF res.err # "" THEN Failed(f, res.err)
                 ELSE AfterResolve([f EXCEPT !.retKey = f.key], res.rm))
        /\ last' = IF res.err # "" THEN last ELSE Record(p, res.rm)
        /\ UNCHANGED <<pools, cache, conns, nCalls, supplied, probe>>

\* Invoke by full method name, up to MethodResolver's read of its cache.
InvokeStatic(p) ==
    \E r \in InvokeStaticRequests :
        LET f == NewFrame(r)
            name == r.FullMethodName
            to == IF name = <<>>
                  THEN Failed(f, "missing full method name")
                  ELSE IF name \in DOMAIN cache
                  THEN AfterResolve(f, [Method |-> cache[name],
                                        ServiceFQN |-> cache[name].svc])
                  ELSE IF ParseFullMethodName(name).err # ""
                  THEN Failed(f, ParseFullMethodName(name).err)
                  ELSE [pc |-> "readFile", frame |-> f]
        IN  /\ CanStart(p)
            /\ nCalls' = nCalls + 1
            /\ Go(p, to)
            /\ UNCHANGED <<pools, cache, conns, supplied, last, probe>>

\* A faulty variant of MatchingMethods: the names are compared without the leading "/".
MatchingMethodsTrimmed(b, name) ==
    {MethodOf(svc, m) : <<svc, m>> \in
        {sm \in FileDescriptorSet(b) \X UNION {x.methods : x \in FileDescriptorSet(b)} :
            /\ sm[2] \in sm[1].methods
            /\ GetFullyQualifiedName(sm[1]) \o <<"/">> \o sm[2].name
                   = TrimPrefix(name, <<"/">>)}}

\* The methods of descriptor set b whose full name is name.
MatchingMethods(b, name) ==
    {MethodOf(svc, m) : <<svc, m>> \in
        {sm \in FileDescriptorSet(b) \X UNION {x.methods : x \in FileDescriptorSet(b)} :
            /\ sm[2] \in sm[1].methods
            /\ <<"/">> \o GetFullyQualifiedName(sm[1]) \o <<"/">> \o sm[2].name = name}}

\* The states the descriptor directory can be in (service name -> bytes of
\* <name>.pb): p.S.pb holds b1 or b2 or is absent; q.T.pb does not parse.
Directories ==
    {(<<"p", ".", "S">> :> "b1") @@ (<<"q", ".", "T">> :> "bad"),
     (<<"p", ".", "S">> :> "b2") @@ (<<"q", ".", "T">> :> "bad"),
     (<<"q", ".", "T">> :> "bad")}

\* MethodResolver.Resolve on a miss: read <service>.pb, parse it, search it.
\* The directory is the environment's: the read finds it in any of its states.
ReadFile(p) ==
    \E files \in Directories :
        LET f == frame[p]
            name == f.req.FullMethodName
            serviceName == ParseFullMethodName(name).serviceName
            data == files[serviceName]
            found == MatchingMethods(data, name)
            to == IF serviceName \notin DOMAIN files
                  THEN Failed(f, "read descriptor file")
                  ELSE IF ParseErr(data) # ""
                  THEN Failed(f, ParseErr(data))
                  ELSE IF found = {}
                  THEN Failed(f, "method not found in descriptor set")
                  ELSE [pc |-> "memo",
                        frame |-> [f EXCEPT !.rm = [Method |-> CHOOSE m \in found : TRUE,
                                                    ServiceFQN |-> <<>>]]]
        IN  /\ pc[p] = "readFile"
            /\ Go(p, to)
            /\ UNCHANGED <<pools, cache, conns, nCalls, supplied, last, probe>>

\* A faulty variant of Memoize: the method is stored under its service's name.
MemoizeByService(p) ==
    LET f == frame[p]
        md == f.rm.Method
    IN  /\ pc[p] = "memo"
        /\ cache' = MapPut(cache, ParseFullMethodName(f.req.FullMethodName).serviceName, md)
        /\ Go(p, AfterResolve(f, [Method |-> md, ServiceFQN |-> md.svc]))
        /\ UNCHANGED <<pools, conns, nCalls, supplied, last, probe>>

\* r.cache[fullMethodName] = m, under the write lock, and the return to Invoke.
Memoize(p) ==
    LET f == frame[p]
        md == f.rm.Method
    IN  /\ pc[p] = "memo"
        /\ cache' = MapPut(cache, f.req.FullMethodName, md)
        /\ Go(p, AfterResolve(f, [Method |-> md, ServiceFQN |-> md.svc]))
        /\ UNCHANGED <<pools, conns, nCalls, supplied, last, probe>>

\* A faulty variant of CodeRequest: the error of JSONToMessage is dropped.
CodeRequestDropsError(p) ==
    \E body \in Bodies :
        LET f == [frame[p] EXCEPT !.body = body]
        IN  /\ pc[p] = "CodingRequest"
            /\ Go(p, [pc |-> "Dialing", frame |-> f])
            /\ UNCHANGED <<pools, cache, conns, nCalls, supplied, last, probe>>

\* JSONToMessage(method.Method, req.Body)
CodeRequest(p) ==
    \E body \in Bodies :
        LET f == [frame[p] EXCEPT !.body = body]
            e == JSONToMessageErr(f.rm.Method, body)
        IN  /\ pc[p] = "CodingRequest"
            /\ Go(p, IF e # "" THEN Failed(f, e) ELSE [pc |-> "Dialing", frame |-> f])
            /\ UNCHANGED <<pools, cache, conns, nCalls, supplied, last, probe>>

\* A faulty variant of Dial: after an error the dial is tried again.
DialRetries(p) ==
    /\ pc[p] = "Dialing"
    /\ \/ /\ Go(p, [pc |-> "Dialing", frame |-> [frame[p] EXCEPT !.err = "dial"]])
          /\ UNCHANGED conns
       \/ /\ Go(p, [pc |-> "Calling", frame |-> [frame[p] EXCEPT !.conn = p]])
          /\ conns' = conns \cup {p}
    /\ UNCHANGED <<pools, cache, nCalls, supplied, last, probe>>

\* grpc.DialContext: a connection, or an error and none.
Dial(p) ==
    /\ pc[p] = "Dialing"
    /\ \/ /\ Go(p, Failed(frame[p], "dial"))
          /\ UNCHANGED conns
       \/ /\ Go(p, [pc |-> "Calling", frame |-> [frame[p] EXCEPT !.conn = p]])
          /\ conns' = conns \cup {p}
    /\ UNCHANGED <<pools, cache, nCalls, supplied, last, probe>>

\* The deferred conn.Close() of a returning Invoke.
Close(f) == conns \ {f.conn}

\* A faulty variant of Call: a failed call returns without closing the connection.
CallLeaks(p) ==
    /\ pc[p] = "Calling"
    /\ \/ Go(p, Failed(frame[p], "invoke rpc"))
       \/ Go(p, [pc |-> "CodingResponse", frame |-> frame[p]])
    /\ UNCHANGED <<pools, cache, conns, nCalls, supplied, last, probe>>

\* stub.InvokeRpc: a response, or an error (Invoke returns, closing).
Call(p) ==
    /\ pc[p] = "Calling"
    /\ \/ /\ Go(p, Failed(frame[p], "invoke rpc"))
          /\ conns' = Close(frame[p])
       \/ /\ Go(p, [pc |-> "CodingResponse", frame |-> frame[p]])
          /\ UNCHANGED conns
    /\ UNCHANGED <<pools, cache, nCalls, supplied, last, probe>>

\* MessageToJSON(respMsg) and the return of Invoke.
CodeResponse(p) ==
    /\ pc[p] = "CodingResponse"
    /\ \/ Go(p, Failed(frame[p], "message to json"))
       \/ Go(p, [pc |-> "Done", frame |-> frame[p]])
    /\ conns' = Close(frame[p])
    /\ UNCHANGED <<pools, cache, nCalls, supplied, last, probe>>

Next ==
    \E p \in Procs :
          \/ InvokeInline(p)
          \/ IndexService(p)
          \/ StorePool(p)
          \/ ResolveMethod(p)
          \/ InvokeStatic(p)
          \/ ReadFile(p)
          \/ Memoize(p)
          \/ CodeRequest(p)
          \/ Dial(p)
          \/ Call(p)
          \/ CodeResponse(p)

Spec == Init /\ [][Next]_vars

(***************************************************************************)
(* Invoke under the Invoker's timeout and the caller's context.  The target *)
(* answers a dial or a call when it pleases, or never; the deadline of a    *)
(* positive timeout comes.                                                  *)
(***************************************************************************)
\* The Invoke calls made under a timeout.
MaxTimedCalls == 2

\* The timeouts an Invoker is made with: none (the default Options), 5s.
Timeouts == {0, 5}

\* A faulty variant of HasDeadline: the configured timeout is ignored.
HasDeadlineIgnored(timeout) == FALSE

\* inv.timeout > 0: Invoke derives a context with the deadline.
HasDeadline(timeout) == timeout > 0

InitTimed ==
    /\ pools = EmptyMap
    /\ cache = EmptyMap
    /\ conns = {}
    /\ pc = [p \in Procs |-> "idle"]
    /\ frame = [p \in Procs |-> NoFrame]
    /\ nCalls = 0
    /\ supplied = {}
    /\ last = EmptyMap
    /\ probe \in [timeout : Timeouts]

\* The context of the dial or call in progress ends with the error: the
\* step returns it and Invoke returns, closing the connection it has.
Abort(p, e) ==
    /\ pc[p] \in {"Dialing", "Calling"}
    /\ Go(p, Failed(frame[p], e))
    /\ conns' = IF pc[p] = "Calling" THEN Close(frame[p]) ELSE conns
    /\ UNCHANGED <<pools, cache, nCalls, supplied, last, probe>>

\* The deadline of context.WithTimeout(ctx, inv.timeout) passes.
Deadline(p) ==
    /\ HasDeadline(probe.timeout)
    /\ Abort(p, "context deadline exceeded")

\* The caller cancels the context it passed to Invoke.
CallerCancels(p) == Abort(p, "context canceled")

NextTimed ==
    \/ Next /\ nCalls' <= MaxTimedCalls
    \/ \E p \in Procs : Deadline(p)
    \/ \E p \in Procs : CallerCancels(p)

SpecTimed == InitTimed /\ [][NextTimed]_vars

\* The steps Invoke takes by itself, but for the resolution in the pool.
Local(p) ==
    \/ IndexService(p)
    \/ StorePool(p)
    \/ ReadFile(p)
    \/ Memoize(p)
    \/ CodeRequest(p)
    \/ CodeResponse(p)

\* The steps Invoke takes by itself go on; the deadline, if there is one,
\* comes.  The target need not answer and the caller need not cancel.
\* ResolveMethod(p) is enabled exactly in stage "resolve" and leaves it, so
\* []<>(pc[p] # "resolve") is WF_vars(ResolveMethod(p)).
FairTimed ==
    /\ SpecTimed
    /\ \A p \in Procs :
          /\ WF_vars(Local(p))
          /\ []<>(pc[p] # "resolve")
          /\ WF_vars(Deadline(p))

(***************************************************************************)
(* InlineMethodResolver alone: direct calls of Resolve from the goroutines. *)
(***************************************************************************)
NextInline ==
    \E p \in Procs :
          \/ ResolveInline(p)
          \/ IndexService(p)
          \/ StorePool(p)
          \/ ResolveMethod(p)

SpecInline == Init /\ [][NextInline]_vars

(***************************************************************************)
(* MethodResolver alone: direct calls of Resolve from the goroutines, the   *)
(* descriptor directory changing between the reads.                         *)
(***************************************************************************)
\* A faulty variant of ResolveStatic: the cache is not looked at.
ResolveStaticRereads(p) ==
    \E name \in FullMethodNames :
        LET f == NewFrame([StaticRequest(name) EXCEPT !.op = "Resolve"])
            to == IF ParseFullMethodName(name).err # ""
                  THEN Failed(f, ParseFullMethodName(name).err)
                  ELSE [pc |-> "readFile", frame |-> f]
        IN  /\ CanResolve(p)
            /\ nCalls' = nCalls + 1
            /\ Go(p, to)
            /\ UNCHANGED <<pools, cache, conns, supplied, last, probe>>

\* MethodResolver.Resolve(fullMethodName), up to the read of the file.
ResolveStatic(p) ==
    \E name \in FullMethodNames :
        LET f == NewFrame([StaticRequest(name) EXCEPT !.op = "Resolve"])
            to == IF name \in DOMAIN cache
                  THEN AfterResolve(f, [Method |-> cache[name],
                                        ServiceFQN |-> cache[name].svc])
                  ELSE IF ParseFullMethodName(name).err # ""
                  THEN Failed(f, ParseFullMethodName(name).err)
                  ELSE [pc |-> "readFile", frame |-> f]
        IN  /\ CanResolve(p)
            /\ nCalls' = nCalls + 1
            /\ Go(p, to)
            /\ UNCHANGED <<pools, cache, conns, supplied, last, probe>>

NextStatic ==
    \E p \in Procs :
          \/ ResolveStatic(p)
          \/ ReadFile(p)
          \/ Memoize(p)

SpecStatic == Init /\ [][NextStatic]_vars

(***************************************************************************)
(* InlineDescriptorPool.Resolve alone: one resolution on a pool built from  *)
(* any set of the services below, for the service and method strings below. *)
(***************************************************************************)
ProbeServices ==
    {Svc("u", <<>>, <<"S">>, {Meth(<<"M">>, FALSE, FALSE)}),
     Svc("u", <<"p">>, <<"S">>,
         {Meth(<<"M">>, FALSE, FALSE), Meth(<<"N">>, FALSE, TRUE)}),
     Svc("u", <<"q">>, <<"S">>, {Meth(<<"N">>, FALSE, FALSE)}),
     Svc("u", <<"p">>, <<"T">>, {Meth(<<"M">>, TRUE, FALSE)})}

ProbeServiceArgs ==
    {<<>>, <<"S">>, <<"T">>, <<"X">>,
     <<"p", ".", "S">>, <<"q", ".", "S">>, <<"p", ".", "T">>,
     <<".", "S">>, <<".", "p", ".", "S">>, <<"/", "p", ".", "S">>,
     <<"/", ".", "S">>, <<" ", "S", " ">>, <<".", ".", "S">>}

ProbeMethodArgs ==
    {<<>>, <<"M">>, <<"N">>, <<"X">>, <<"/", "M">>, <<" ", "M", " ">>, <<"/">>,
     <<"/", "p", ".", "S", "/", "M">>, <<"p", ".", "S", "/", "M">>,
     <<"/", "S", "/", "M">>, <<"/", "p", ".", "S">>}

InitPool ==
    /\ pools = EmptyMap
    /\ cache = EmptyMap
    /\ conns = {}
    /\ pc = [p \in Procs |-> "idle"]
    /\ frame = [p \in Procs |-> NoFrame]
    /\ nCalls = 0
    /\ supplied = {}
    /\ last = EmptyMap
    /\ probe \in [svcs : SUBSET ProbeServices, service : ProbeServiceArgs,
                   method : ProbeMethodArgs, done : {FALSE},
                   out : {ResolveErr("", {})}]

\* p.Resolve(service, method) on the pool of the services probe.svcs.
ProbeResolve ==
    /\ ~probe.done
    /\ probe' = [probe EXCEPT
                    !.done = TRUE,
                    !.out = PoolResolve(AddServices(EmptyPool("u"), probe.svcs),
                                        probe.service, probe.method)]
    /\ UNCHANGED <<pools, cache, conns, pc, frame, nCalls, supplied, last>>

NextPool == ProbeResolve

SpecPool == InitPool /\ [][NextPool]_vars

(***************************************************************************)
(* InlineDescriptorPool.Resolve on one pool for a service name s and a      *)
(* method name m given three ways: ("", "/s/m"), (s, m) and (other, "/s/m") *)
(* with a service name other that is not empty.                             *)
(***************************************************************************)
PathServices ==
    {<<"p", ".", "S">>, <<"q", ".", "S">>, <<"p", ".", "T">>, <<"S">>,
     <<"X">>, <<".", "p", ".", "S">>}

PathMethods == {<<"M">>, <<"N">>, <<"X">>, <<>>}

OtherServices == {<<"S">>, <<"p", ".", "T">>, <<"X">>}

Pending == ResolveErr("pending", {})

\* "/" + s + "/" + m
FullPath(s, m) == <<"/">> \o s \o <<"/">> \o m

ProbedPool == AddServices(EmptyPool("u"), probe.svcs)

InitPath ==
    /\ pools = EmptyMap
    /\ cache = EmptyMap
    /\ conns = {}
    /\ pc = [p \in Procs |-> "idle"]
    /\ frame = [p \in Procs |-> NoFrame]
    /\ nCalls = 0
    /\ supplied = {}
    /\ last = EmptyMap
    /\ probe \in [svcs : SUBSET ProbeServices, service : PathServices,
                   method : PathMethods, other : OtherServices,
                   full : {Pending}, split : {Pending}, keep : {Pending}]

\* p.Resolve("", "/s/m")
ResolveFullPath ==
    /\ probe.full = Pending
    /\ probe' = [probe EXCEPT !.full =
                    PoolResolve(ProbedPool, <<>>, FullPath(probe.service, probe.method))]
    /\ UNCHANGED <<pools, cache, conns, pc, frame, nCalls, supplied, last>>

\* p.Resolve(s, m)
ResolveSplit ==
    /\ probe.split = Pending
    /\ probe' = [probe EXCEPT !.split =
                    PoolResolve(ProbedPool, probe.service, probe.method)]
    /\ UNCHANGED <<pools, cache, conns, pc, frame, nCalls, supplied, last>>

\* p.Resolve(other, "/s/m")
ResolveKeepService ==
    /\ probe.keep = Pending
    /\ probe' = [probe EXCEPT !.keep =
                    PoolResolve(ProbedPool, probe.other,
                                FullPath(probe.service, probe.method))]
    /\ UNCHANGED <<pools, cache, conns, pc, frame, nCalls, supplied, last>>

NextPath == ResolveFullPath \/ ResolveSplit \/ ResolveKeepService

SpecPath == InitPath /\ [][NextPath]_vars

(***************************************************************************)
(* The payload codec: JSONToMessage and MessageToJSON.  A schema is the     *)
(* sequence of the fields of a message type, in field order.  A message is  *)
(* a function from the names of the fields that are set to their values (a  *)
(* dynamic.Message keeps the set fields only; reading a field that is not   *)
(* set gives the default of its type).  A JSON document is Invalid, or an   *)
(* object: its members in the order of the text, each a name and a value    *)
(* tagged with its JSON type.                                               *)
(***************************************************************************)
Field(name, type) == [name |-> name, type |-> type]

\* message EchoRequest { string message = 1; } and EchoResponse alike.
EchoSchema == <<Field("message", "string")>>

\* A message type with a field of each scalar kind of the model.
ScalarSchema ==
    <<Field("message", "string"), Field("count", "int32"), Field("flag", "bool")>>

Default(type) ==
    CASE type = "string" -> ""
      [] type = "int32" -> 0
      [] type = "bool" -> FALSE

\* The JSON type that holds a field of the type.
JSONType(type) ==
    CASE type = "string" -> "string"
      [] type = "int32" -> "number"
      [] type = "bool" -> "bool"

\* The literal of a value in JSON text: a number in decimal, true or false,
\* and a string as it is.
Literal(type, v) ==
    CASE type = "string" -> v
      [] type = "int32" -> (CASE v = 0 -> "0" [] v = 7 -> "7")
      [] type = "bool" -> (IF v THEN "true" ELSE "false")

\* The value a literal stands for.
ValueOf(type, text) ==
    CASE type = "string" -> text
      [] type = "int32" -> (IF text = "0" THEN 0 ELSE 7)
      [] type = "bool" -> (text = "true")

\* msg.GetField: the value set, or the default.
GetField(msg, fd) == IF fd.name \in DOMAIN msg THEN msg[fd.name] ELSE Default(fd.type)

Member(name, t, v) == [name |-> name, value |-> [t |-> t, v |-> v]]

Null(name) == Member(name, "null", "")

Object(members) == [valid |-> TRUE, members |-> members]

\* Text that is not JSON.
Invalid == [valid |-> FALSE, members |-> <<>>]

\* A faulty variant of MessageToJSON: the marshaler without EmitDefaults
\* leaves out the fields that hold their default.
MessageToJSONOmitDefaults(schema, msg) ==
    Object(SelectSeq([i \in 1..Len(schema) |->
                         Member(schema[i].name, JSONType(schema[i].type),
                                Literal(schema[i].type, GetField(msg, schema[i])))],
                     LAMBDA m : \E i \in 1..Len(schema) :
                                   /\ schema[i].name = m.name
                                   /\ m.value.v # Literal(schema[i].type,
                                                          Default(schema[i].type))))

\* MessageToJSON with jsonpb.Marshaler{EmitDefaults: true}: one member per
\* field of the schema, in field order, set or not.
MessageToJSON(schema, msg) ==
    Object([i \in 1..Len(schema) |->
               Member(schema[i].name, JSONType(schema[i].type),
                      Literal(schema[i].type, GetField(msg, schema[i])))])

\* The fields of the schema with the name.
FieldsNamed(schema, name) ==
    {schema[i] : i \in {j \in 1..Len(schema) : schema[j].name = name}}

\* jsonpb.Unmarshal into a new message, member by member: a name the schema
\* does not have and a value of another JSON type are errors, null leaves
\* the field unset, a later member of the same name replaces an earlier one.
RECURSIVE UnmarshalMembers(_, _, _)
UnmarshalMembers(schema, members, msg) ==
    IF members = <<>> THEN [err |-> "", msg |-> msg]
    ELSE LET m == Head(members)
             fds == FieldsNamed(schema, m.name)
             fd == CHOOSE x \in fds : TRUE
         IN  IF fds = {}
             THEN [err |-> "unknown field", msg |-> <<>>]
             ELSE IF m.value.t = "null"
             THEN UnmarshalMembers(schema, Tail(members), msg)
             ELSE IF m.value.t # JSONType(fd.type)
             THEN [err |-> "bad value", msg |-> <<>>]
             ELSE UnmarshalMembers(schema, Tail(members),
                                   MapPut(msg, m.name, ValueOf(fd.type, m.value.v)))

\* JSONToMessage(method, jsonBody) for the input type's schema.
JSONToMessage(schema, doc) ==
    IF ~doc.valid THEN [err |-> "invalid json", msg |-> <<>>]
    ELSE UnmarshalMembers(schema, doc.members, EmptyMap)

(***************************************************************************)
(* The codec alone: a message is encoded and the text decoded again, or a   *)
(* given text is decoded.                                                   *)
(***************************************************************************)
\* A field left unset, or set to one of the values.
Setting(name, values) == {EmptyMap} \cup {name :> v : v \in values}

\* The messages of ScalarSchema: each field unset or set to a value.
ScalarMessages ==
    {a @@ b @@ c : a \in Setting("message", {"", "Alice", "Bob"}),
                   b \in Setting("count", {0, 7}),
                   c \in Setting("flag", {FALSE, TRUE})}

\* Request texts: not JSON; {}; {"message":"Alice"}; {"count":null};
\* {"message":7}; {"x":7}; {"flag":true,"flag":false}.
Documents ==
    {Invalid,
     Object(<<>>),
     Object(<<Member("message", "string", "Alice")>>),
     Object(<<Null("count")>>),
     Object(<<Member("message", "number", "7")>>),
     Object(<<Member("x", "number", "7")>>),
     Object(<<Member("flag", "bool", "true"), Member("flag", "bool", "false")>>)}

NoDecoded == [err |-> "pending", msg |-> <<>>]

InitCodec ==
    /\ pools = EmptyMap
    /\ cache = EmptyMap
    /\ conns = {}
    /\ pc = [p \in Procs |-> "idle"]
    /\ frame = [p \in Procs |-> NoFrame]
    /\ nCalls = 0
    /\ supplied = {}
    /\ last = EmptyMap
    /\ \/ probe \in [stage : {"message"}, encoded : {TRUE},
                      msg : ScalarMessages,
                      doc : {Invalid}, back : {NoDecoded}]
       \/ probe \in [stage : {"text"}, encoded : {FALSE}, msg : {EmptyMap},
                      doc : Documents, back : {NoDecoded}]

\* MessageToJSON(msg)
EncodeMessage ==
    /\ probe.stage = "message"
    /\ probe' = [probe EXCEPT !.stage = "text",
                              !.doc = MessageToJSON(ScalarSchema, probe.msg)]
    /\ UNCHANGED <<pools, cache, conns, pc, frame, nCalls, supplied, last>>

\* JSONToMessage(method, text)
DecodeText ==
    /\ probe.stage = "text"
    /\ probe' = [probe EXCEPT !.stage = "decoded",
                              !.back = JSONToMessage(ScalarSchema, probe.doc)]
    /\ UNCHANGED <<pools, cache, conns, pc, frame, nCalls, supplied, last>>

NextCodec == EncodeMessage \/ DecodeText

SpecCodec == InitCodec /\ [][NextCodec]_vars

(***************************************************************************)
(* Invoke of echo.EchoService/Echo from the body to the response text, the  *)
(* method selected by the full method name and by the inline descriptor     *)
(* side by side, against one of the two echo servers of the repository: the *)
(* echoServer of sdk/handler_test.go and the server of the example.         *)
(***************************************************************************)
Servers == {"echoServer", "example"}

EchoMessages == {"", "Alice", "Bob"}

Paths == {"legacy", "inline"}

\* A faulty variant of Echo: the response is left empty.
EchoNothing(server, req) == EmptyMap

\* Echo of the server: the request's message, which the example prefixes.
Echo(server, req) ==
    IF server = "example"
    THEN "message" :> ("echo: " \o GetField(req, EchoSchema[1]))
    ELSE "message" :> GetField(req, EchoSchema[1])

\* GetInputType and GetOutputType of Echo: EchoRequest and EchoResponse.
MessageType(md) == IF md.src = "echo" THEN EchoSchema ELSE <<>>

\* The method the path selects: "/echo.EchoService/Echo" searched in
\* echo.EchoService.pb, or service and method names resolved in the pool of
\* the same bytes sent inline.
SelectMethod(path) ==
    IF path = "legacy"
    THEN LET found == MatchingMethods("echo",
                          <<"/", "echo", ".", "EchoService", "/", "Echo">>)
         IN  IF found = {} THEN NoMethod ELSE CHOOSE md \in found : TRUE
    ELSE PoolResolve(NewInlineDescriptorPool("echo"),
                     <<"echo", ".", "EchoService">>, <<"Echo">>).rm.Method

NoRun == [stage |-> "ResolvingMethod", md |-> NoMethod, req |-> EmptyMap,
          resp |-> EmptyMap, out |-> Invalid]

InitEcho ==
    /\ pools = EmptyMap
    /\ cache = EmptyMap
    /\ conns = {}
    /\ pc = [p \in Procs |-> "idle"]
    /\ frame = [p \in Procs |-> NoFrame]
    /\ nCalls = 0
    /\ supplied = {}
    /\ last = EmptyMap
    /\ probe \in [server : Servers, m : EchoMessages, run : {[p \in Paths |-> NoRun]}]

EchoStep(path, from, run) ==
    /\ probe.run[path].stage = from
    /\ probe' = [probe EXCEPT !.run[path] = run]
    /\ UNCHANGED <<pools, cache, conns, pc, frame, nCalls, supplied, last>>

\* Invoke, lines 206-229: the method is resolved and is not streaming.
EchoResolve(path) ==
    LET md == SelectMethod(path)
    IN  EchoStep(path, "ResolvingMethod",
                 [probe.run[path] EXCEPT
                     !.md = md,
                     !.stage = IF md = NoMethod \/ IsStreaming(md)
                               THEN "Failed" ELSE "CodingRequest"])

\* Invoke, lines 231-234: the body {"message": m} into the input type.
EchoCodeRequest(path) ==
    LET r == probe.run[path]
        in == JSONToMessage(MessageType(r.md),
                            Object(<<Member("message", "string", probe.m)>>))
    IN  EchoStep(path, "CodingRequest",
                 [r EXCEPT !.req = in.msg,
                           !.stage = IF in.err # "" THEN "Failed" ELSE "Calling"])

\* Invoke, lines 236-246: the call on a fresh connection to the live server.
EchoCall(path) ==
    LET r == probe.run[path]
    IN  EchoStep(path, "Calling",
                 [r EXCEPT !.resp = Echo(probe.server, r.req),
                           !.stage = "CodingResponse"])

\* Invoke, line 248: the response as JSON.
EchoCodeResponse(path) ==
    LET r == probe.run[path]
    IN  EchoStep(path, "CodingResponse",
                 [r EXCEPT !.out = MessageToJSON(MessageType(r.md), r.resp),
                           !.stage = "Done"])

NextEcho ==
    \E path \in Paths :
        \/ EchoResolve(path)
        \/ EchoCodeRequest(path)
        \/ EchoCall(path)
        \/ EchoCodeResponse(path)

SpecEcho == InitEcho /\ [][NextEcho]_vars

(***************************************************************************)
(* The body encoding of the gateway (sdk/encoding.go).  A byte is a number  *)
(* in 0..255.  A character of encoded text is the index 0..63 of a digit of *)
(* the standard base64 alphabet, Pad for "=", or Other for a character that *)
(* is not in the alphabet.                                                  *)
(***************************************************************************)
\* The longest plain text encoded.
MaxPlain == 4

Pad == 64

Other == 65

Reverse(s) == [i \in 1..Len(s) |-> s[Len(s) + 1 - i]]

\* base64.StdEncoding.EncodeToString
RECURSIVE StdEncode(_)
StdEncode(plain) ==
    IF Len(plain) = 0 THEN <<>>
    ELSE IF Len(plain) = 1
    THEN LET n == plain[1] * 16
         IN  <<n \div 64, n % 64, Pad, Pad>>
    ELSE IF Len(plain) = 2
    THEN LET n == (plain[1] * 256 + plain[2]) * 4
         IN  <<n \div 4096, (n \div 64) % 64, n % 64, Pad>>
    ELSE LET n == plain[1] * 65536 + plain[2] * 256 + plain[3]
         IN  <<n \div 262144, (n \div 4096) % 64, (n \div 64) % 64, n % 64>>
             \o StdEncode(SubSeq(plain, 4, Len(plain)))

\* A faulty variant of EncodeBase64V1: the text is not reversed.
EncodeBase64V1Plain(plain) == StdEncode(plain)

\* encodeBase64V1
EncodeBase64V1(plain) == Reverse(StdEncode(plain))

Decoded(err, bytes, isNil) == [err |-> err, bytes |-> bytes, isNil |-> isNil]

Corrupt == Decoded("illegal base64 data", <<>>, TRUE)

\* base64.StdEncoding.DecodeString: groups of four characters; padding only
\* at the end of the last group; the bits left over in a padded group are
\* dropped.
RECURSIVE StdDecode(_)
StdDecode(s) ==
    IF Len(s) = 0 THEN Decoded("", <<>>, FALSE)
    ELSE IF Len(s) < 4 THEN Corrupt
    ELSE LET c == SubSeq(s, 1, 4)
             last4 == Len(s) = 4
             rest == StdDecode(SubSeq(s, 5, Len(s)))
             n == c[1] * 262144 + c[2] * 4096 + c[3] * 64 + c[4]
         IN  IF c[1] >= Pad \/ c[2] >= Pad \/ c[3] = Other \/ c[4] = Other
             THEN Corrupt
             ELSE IF c[3] = Pad
             THEN IF c[4] = Pad /\ last4
                  THEN Decoded("", <<(c[1] * 64 + c[2]) \div 16>>, FALSE)
                  ELSE Corrupt
             ELSE IF c[4] = Pad
             THEN IF last4
                  THEN LET m == (c[1] * 4096 + c[2] * 64 + c[3]) \div 4
                       IN  Decoded("", <<m \div 256, m % 256>>, FALSE)
                  ELSE Corrupt
             ELSE IF rest.err # "" THEN Corrupt
             ELSE Decoded("", <<n \div 65536, (n \div 256) % 256, n % 256>> \o rest.bytes,
                          FALSE)

\* decodeBase64V1
DecodeBase64V1(s) ==
    IF s = <<>> THEN Decoded("", <<>>, TRUE) ELSE StdDecode(Reverse(s))

\* decodeRequestBody on a body that was read whole.
DecodeRequestBody(raw) ==
    IF DecodeBase64V1(raw).err # ""
    THEN Decoded("decode b64v1", <<>>, TRUE)
    ELSE DecodeBase64V1(raw)

Bytes == {0, 1, 255}

RECURSIVE SeqsUpTo(_, _)
SeqsUpTo(S, n) ==
    IF n = 0 THEN {<<>>}
    ELSE SeqsUpTo(S, n - 1)
         \cup {Append(s, x) : s \in {t \in SeqsUpTo(S, n - 1) : Len(t) = n - 1}, x \in S}

Plains == SeqsUpTo(Bytes, MaxPlain)

\* Bodies that are not in the encoding: a character outside the alphabet
\* ("not-a-valid-b64v1" has "-"), a length that is no multiple of four,
\* "AA==" not reversed, padding inside.
BadBodies ==
    {<<Other, 0, 0, 0>>, <<0>>, <<0, 0, 0>>, <<0, 0, Pad, Pad>>,
     <<1, 1, 1, 1, Pad, Pad, 0, 0>>, <<Pad, 0, Pad, 0>>}

\* Bodies the decoder takes: empty, "==AA", "==QA", and "==RA", which is
\* "AR==" reversed, with bits left over.
GoodBodies == {<<>>, <<Pad, Pad, 0, 0>>, <<Pad, Pad, 16, 0>>, <<Pad, Pad, 17, 0>>}

NoBody == Decoded("pending", <<>>, TRUE)

InitBase64 ==
    /\ pools = EmptyMap
    /\ cache = EmptyMap
    /\ conns = {}
    /\ pc = [p \in Procs |-> "idle"]
    /\ frame = [p \in Procs |-> NoFrame]
    /\ nCalls = 0
    /\ supplied = {}
    /\ last = EmptyMap
    /\ \/ probe \in [stage : {"plain"}, plain : Plains, text : {<<>>}, out : {NoBody}]
       \/ probe \in [stage : {"body"}, plain : {<<>>},
                      text : BadBodies \cup GoodBodies, out : {NoBody}]

\* encodeBase64V1(plain)
EncodePlain ==
    /\ probe.stage = "plain"
    /\ probe' = [probe EXCEPT !.stage = "encoded", !.text = EncodeBase64V1(probe.plain)]
    /\ UNCHANGED <<pools, cache, conns, pc, frame, nCalls, supplied, last>>

\* decodeBase64V1(text) of the text just encoded
DecodeEncoded ==
    /\ probe.stage = "encoded"
    /\ probe' = [probe EXCEPT !.stage = "roundTrip", !.out = DecodeBase64V1(probe.text)]
    /\ UNCHANGED <<pools, cache, conns, pc, frame, nCalls, supplied, last>>

\* decodeRequestBody(r) for a request with the body
DecodeBody ==
    /\ probe.stage = "body"
    /\ probe' = [probe EXCEPT !.stage = "bodyDecoded", !.out = DecodeRequestBody(probe.text)]
    /\ UNCHANGED <<pools, cache, conns, pc, frame, nCalls, supplied, last>>

NextBase64 == EncodePlain \/ DecodeEncoded \/ DecodeBody

SpecBase64 == InitBase64 /\ [][NextBase64]_vars

(***************************************************************************)
(* The HTTP handler (handler.go): one request from its fields to the        *)
(* response.  The descriptor field is text in standard base64, not          *)
(* reversed; the other fields are short strings, "" when absent, and body   *)
(* and params are "nil" when absent.                                        *)
(***************************************************************************)
NoInvoke ==
    [Target |-> "", Body |-> "", FullMethodName |-> "", ServiceName |-> "",
     MethodName |-> "", InlineDescriptorSet |-> <<>>, DescriptorID |-> ""]

Response(status, error, called, invokeReq) ==
    [status |-> status, error |-> error, called |-> called, invokeReq |-> invokeReq]

\* A faulty variant of Route: descriptor_id is looked at before descriptor.
RouteIdFirst(opts, req) ==
    LET target == IF req.target # "" THEN req.target
                  ELSE IF req.target_addr # "" THEN req.target_addr
                  ELSE opts.DefaultTarget
        body == IF req.body # "nil" THEN req.body
                ELSE IF req.params # "nil" THEN req.params ELSE "{}"
        base == [NoInvoke EXCEPT !.Target = target, !.Body = body]
        fullMethod == IF req.method # "" THEN req.method ELSE req.full_method_name
    IN  IF req.httpMethod # "POST" THEN Response(404, "", FALSE, NoInvoke)
        ELSE IF req.parse = "bad encoding" THEN Response(404, "", FALSE, NoInvoke)
        ELSE IF req.parse = "bad json"
        THEN Response(400, "invalid JSON body", FALSE, NoInvoke)
        ELSE IF target = "" THEN Response(400, "missing target", FALSE, NoInvoke)
        ELSE IF req.descriptor_id # ""
        THEN IF req.method = ""
             THEN Response(400, "missing method for descriptor_id request", FALSE, NoInvoke)
             ELSE Response(0, "", TRUE,
                           [base EXCEPT !.ServiceName = req.service,
                                        !.MethodName = req.method,
                                        !.DescriptorID = req.descriptor_id])
        ELSE IF req.descriptor # <<>>
        THEN IF req.method = ""
             THEN Response(400, "missing method for inline descriptor request", FALSE,
                           NoInvoke)
             ELSE IF StdDecode(req.descriptor).err # ""
             THEN Response(400, "invalid base64 descriptor", FALSE, NoInvoke)
             ELSE Response(0, "", TRUE,
                           [base EXCEPT !.ServiceName = req.service,
                                        !.MethodName = req.method,
                                        !.InlineDescriptorSet =
                                            StdDecode(req.descriptor).bytes,
                                        !.DescriptorID = req.descriptor_id])
        ELSE IF fullMethod = ""
        THEN Response(400, "missing method (full_method_name) or inline descriptor fields",
                      FALSE, NoInvoke)
        ELSE Response(0, "", TRUE, [base EXCEPT !.FullMethodName = fullMethod])

\* The handler up to its call of inv.Invoke (status 0: no response yet), or
\* to the response it writes without calling.
Route(opts, req) ==
    LET target == IF req.target # "" THEN req.target
                  ELSE IF req.target_addr # "" THEN req.target_addr
                  ELSE opts.DefaultTarget
        body == IF req.body # "nil" THEN req.body
                ELSE IF req.params # "nil" THEN req.params ELSE "{}"
        base == [NoInvoke EXCEPT !.Target = target, !.Body = body]
        fullMethod == IF req.method # "" THEN req.method ELSE req.full_method_name
    IN  IF req.httpMethod # "POST" THEN Response(404, "", FALSE, NoInvoke)
        ELSE IF req.parse = "bad encoding" THEN Response(404, "", FALSE, NoInvoke)
        ELSE IF req.parse = "bad json"
        THEN Response(400, "invalid JSON body", FALSE, NoInvoke)
        ELSE IF target = "" THEN Response(400, "missing target", FALSE, NoInvoke)
        ELSE IF req.descriptor # <<>>
        THEN IF req.method = ""
             THEN Response(400, "missing method for inline descriptor request", FALSE,
                           NoInvoke)
             ELSE IF StdDecode(req.descriptor).err # ""
             THEN Response(400, "invalid base64 descriptor", FALSE, NoInvoke)
             ELSE Response(0, "", TRUE,
                           [base EXCEPT !.ServiceName = req.service,
                                        !.MethodName = req.method,
                                        !.InlineDescriptorSet =
                                            StdDecode(req.descriptor).bytes,
                                        !.DescriptorID = req.descriptor_id])
        ELSE IF req.descriptor_id # ""
        THEN IF req.method = ""
             THEN Response(400, "missing method for descriptor_id request", FALSE, NoInvoke)
             ELSE Response(0, "", TRUE,
                           [base EXCEPT !.ServiceName = req.service,
                                        !.MethodName = req.method,
                                        !.DescriptorID = req.descriptor_id])
        ELSE IF fullMethod = ""
        THEN Response(400, "missing method (full_method_name) or inline descriptor fields",
                      FALSE, NoInvoke)
        ELSE Response(0, "", TRUE, [base EXCEPT !.FullMethodName = fullMethod])

\* One request with each field absent or present (the descriptor: absent,
\* "AA==", "AAEC", or with a character outside the alphabet), to a handler
\* with or without a default target.
InitHandler ==
    /\ pools = EmptyMap
    /\ cache = EmptyMap
    /\ conns = {}
    /\ pc = [p \in Procs |-> "idle"]
    /\ frame = [p \in Procs |-> NoFrame]
    /\ nCalls = 0
    /\ supplied = {}
    /\ last = EmptyMap
    /\ probe \in [stage : {"request"},
                   opts : [DefaultTarget : {"", "d"}],
                   req : [httpMethod : {"POST", "GET"},
                          parse : {"ok", "bad encoding", "bad json"},
                          target : {"", "t"}, target_addr : {"", "a"},
                          method : {"", "m"}, full_method_name : {"", "f"},
                          body : {"nil", "b"}, params : {"nil", "p"},
                          service : {"", "s"},
                          descriptor : {<<>>, <<0, 0, Pad, Pad>>, <<0, 0, 4, 2>>,
                                        <<Other, 0, 0, 0>>},
                          descriptor_id : {"", "k"}],
                   resp : {Response(0, "", FALSE, NoInvoke)}]

\* The handler function, lines 38-116.
Serve ==
    /\ probe.stage = "request"
    /\ probe' = [probe EXCEPT
                    !.resp = Route(probe.opts, probe.req),
                    !.stage = IF Route(probe.opts, probe.req).called
                              THEN "invoking" ELSE "responded"]
    /\ UNCHANGED <<pools, cache, conns, pc, frame, nCalls, supplied, last>>

\* inv.Invoke returns, lines 118-126: 502 with the error, or 200.
InvokeReturns ==
    /\ probe.stage = "invoking"
    /\ \/ probe' = [probe EXCEPT !.stage = "responded", !.resp.status = 502,
                                 !.resp.error = "invoke"]
       \/ probe' = [probe EXCEPT !.stage = "responded", !.resp.status = 200]
    /\ UNCHANGED <<pools, cache, conns, pc, frame, nCalls, supplied, last>>

NextHandler == Serve \/ InvokeReturns

SpecHandler == InitHandler /\ [][NextHandler]_vars

(***************************************************************************)
(* Register(mux) called from the goroutines on two muxes.  The path is the  *)
(* one of DefaultOptions, so a mux stands for the pair of mux and path.     *)
(* probe.once[m] is the sync.Once of registerOnce[m][path]: "absent",       *)
(* "fresh", "running" while its function runs (other callers of Do wait),   *)
(* "done".  probe.handled[m] counts the executions of mux.Handle on m.      *)
(***************************************************************************)
\* The calls of Register made in all.
MaxRegisters == 4

InitRegister ==
    /\ pools = EmptyMap
    /\ cache = EmptyMap
    /\ conns = {}
    /\ pc = [p \in Procs |-> "idle"]
    /\ frame = [p \in Procs |-> NoFrame]
    /\ nCalls = 0
    /\ supplied = {}
    /\ last = EmptyMap
    /\ probe = [once |-> [m \in {"m1", "m2"} |-> "absent"],
                handled |-> [m \in {"m1", "m2"} |-> 0],
                stage |-> [p \in Procs |-> "idle"],
                mux |-> [p \in Procs |-> "m1"],
                calls |-> 0]

\* A faulty variant of GetRegisterOnce: a new Once is stored on every call.
GetRegisterOnceAnew(p) ==
    \E m \in DOMAIN probe.once :
        /\ probe.stage[p] \in {"idle", "returned"}
        /\ probe.calls < MaxRegisters
        /\ probe' = [probe EXCEPT
                        !.calls = @ + 1,
                        !.mux[p] = m,
                        !.stage[p] = "do",
                        !.once[m] = "fresh"]
        /\ UNCHANGED <<pools, cache, conns, pc, frame, nCalls, supplied, last>>

\* Register(mux) up to the return of getRegisterOnce: under registerOnceMu
\* the Once of the mux and path is looked up, and made if it is not there.
GetRegisterOnce(p) ==
    \E m \in DOMAIN probe.once :
        /\ probe.stage[p] \in {"idle", "returned"}
        /\ probe.calls < MaxRegisters
        /\ probe' = [probe EXCEPT
                        !.calls = @ + 1,
                        !.mux[p] = m,
                        !.stage[p] = "do",
                        !.once[m] = IF @ = "absent" THEN "fresh" ELSE @]
        /\ UNCHANGED <<pools, cache, conns, pc, frame, nCalls, supplied, last>>

\* once.Do(f): the first caller begins f; a caller that finds f done
\* returns; a caller that finds f running waits.
OnceDo(p) ==
    /\ probe.stage[p] = "do"
    /\ probe.once[probe.mux[p]] \in {"fresh", "done"}
    /\ probe' = IF probe.once[probe.mux[p]] = "fresh"
                THEN [probe EXCEPT !.once[probe.mux[p]] = "running",
                                   !.stage[p] = "handle"]
                ELSE [probe EXCEPT !.stage[p] = "returned"]
    /\ UNCHANGED <<pools, cache, conns, pc, frame, nCalls, supplied, last>>

\* f: mux.Handle(opts.Path, Handler(opts)), and the return of Do and Register.
MuxHandle(p) ==
    /\ probe.stage[p] = "handle"
    /\ probe' = [probe EXCEPT !.handled[probe.mux[p]] = @ + 1,
                              !.once[probe.mux[p]] = "done",
                              !.stage[p] = "returned"]
    /\ UNCHANGED <<pools, cache, conns, pc, frame, nCalls, supplied, last>>

NextRegister ==
    \E p \in Procs :
        \/ GetRegisterOnce(p)
        \/ OnceDo(p)
        \/ MuxHandle(p)

SpecRegister == InitRegister /\ [][NextRegister]_vars

(***************************************************************************)
(* Two Invokers, each made by NewInvoker for a Handler with maps of its     *)
(* own.  Goroutine g1 serves the requests of Invoker A and g2 those of B.   *)
(* pools and cache are the maps of the Invoker probe.focus; the maps of the *)
(* other one are kept in probe.other.  A goroutine steps while its Invoker  *)
(* is the focus, and the focus moves at any time.                           *)
(***************************************************************************)
InitEngines ==
    /\ pools = EmptyMap
    /\ cache = EmptyMap
    /\ conns = {}
    /\ pc = [p \in Procs |-> "idle"]
    /\ frame = [p \in Procs |-> NoFrame]
    /\ nCalls = 0
    /\ supplied = {}
    /\ last = EmptyMap
    /\ probe = [focus |-> "A", at |-> ("g1" :> "A") @@ ("g2" :> "B"),
                other |-> [pools |-> EmptyMap, cache |-> EmptyMap]]

\* The maps of Invoker e: inv.inlineResolver.pools and inv.resolver.cache.
Engine(e) ==
    IF probe.focus = e THEN [pools |-> pools, cache |-> cache] ELSE probe.other

\* A faulty variant of Focus: the pool map is one for all Invokers.
FocusSharedPools ==
    /\ probe' = [probe EXCEPT !.focus = IF @ = "A" THEN "B" ELSE "A",
                              !.other = [pools |-> pools, cache |-> cache]]
    /\ pools' = pools
    /\ cache' = probe.other.cache
    /\ UNCHANGED <<conns, pc, frame, nCalls, supplied, last>>

\* The other Invoker becomes the focus.
Focus ==
    /\ probe' = [probe EXCEPT !.focus = IF @ = "A" THEN "B" ELSE "A",
                              !.other = [pools |-> pools, cache |-> cache]]
    /\ pools' = probe.other.pools
    /\ cache' = probe.other.cache
    /\ UNCHANGED <<conns, pc, frame, nCalls, supplied, last>>

NextEngines ==
    \/ Focus
    \/ \E p \in Procs :
          /\ probe.at[p] = probe.focus
          /\ \/ InvokeInline(p)
             \/ IndexService(p)
             \/ StorePool(p)
             \/ ResolveMethod(p)
             \/ InvokeStatic(p)
             \/ ReadFile(p)
             \/ Memoize(p)
             \/ CodeRequest(p)
             \/ Dial(p)
             \/ Call(p)
             \/ CodeResponse(p)

SpecEngines == InitEngines /\ [][NextEngines]_vars

(***************************************************************************)
(* The claims                                                               *)
(***************************************************************************)
WellFormed(b) == b # "" /\ ParseErr(b) = ""

\* C1: a call of the inline resolver that carries well-formed bytes B under
\* the key K replaces the cache entry at K: when the call goes on to resolve
\* its method, pools[K] is the pool parsed from B, also when K was cached
\* before from other bytes.
C1_ResuppliedBytesOverwrite ==
    [][\A p \in Procs :
          (/\ pc[p] # "resolve"
           /\ pc'[p] = "resolve"
           /\ WellFormed(frame'[p].req.InlineDescriptorSet))
          => /\ SpecKey(frame'[p].req) \in DOMAIN pools'
             /\ pools'[SpecKey(frame'[p].req)].src = frame'[p].req.InlineDescriptorSet
      ]_vars

\* C2: once a resolution that carried bytes B under K has succeeded for
\* (service, method), an identifier-only resolution under K for the same
\* service and method that begins later, with no bytes other than B supplied
\* under K since the first one's access to the cache, returns the same method
\* and service name.
C2_IdOnlyRepeatsResolution ==
    \A p \in Procs :
        (frame[p].expect # NoResolved /\ pc[p] \notin InResolver)
        => frame[p].rm = frame[p].expect

IdOnly(r) == r.InlineDescriptorSet = "" /\ r.DescriptorID # "" /\ r.MethodName # <<>>

\* C3: an identifier-only call under K that begins when no bytes were ever
\* stored under K fails with "descriptor not found for id" and leaves the
\* pool cache as it was.
C3_IdOnlyBeforeBytesNotFound ==
    [][\A p \in Procs :
          (/\ pc[p] \in Idle
           /\ <<pc'[p], frame'[p]>> # <<pc[p], frame[p]>>
           /\ IdOnly(frame'[p].req)
           /\ frame'[p].req.DescriptorID \notin supplied)
          => /\ pc'[p] = "Failed"
             /\ frame'[p].err = "descriptor not found for id"
             /\ frame'[p].rm = NoResolved
             /\ pools' = pools
      ]_vars

C3_Witness ==
    \E p \in Procs :
        /\ pc[p] = "Failed"
        /\ IdOnly(frame[p].req)
        /\ frame[p].req.DescriptorID \notin supplied
        /\ frame[p].err = "descriptor not found for id"
        /\ supplied # {}

\* C4: the resolver's key is the identifier when one is given, else the hex
\* digest of the bytes; with neither the call fails with "empty descriptor
\* id" and the cache is left alone; the key returned on success is that key
\* and the cache holds a pool under it.
C4_CacheKey ==
    [][\A p \in Procs :
          /\ pc'[p] \in InResolver
             => frame'[p].key =
                  (IF frame'[p].req.DescriptorID # ""
                   THEN frame'[p].req.DescriptorID
                   ELSE Sha256Hex(frame'[p].req.InlineDescriptorSet))
          /\ (/\ pc[p] \in Idle
              /\ <<pc'[p], frame'[p]>> # <<pc[p], frame[p]>>
              /\ frame'[p].req.op = "Resolve"
              /\ frame'[p].req.InlineDescriptorSet = ""
              /\ frame'[p].req.DescriptorID = "")
             => /\ pc'[p] = "Failed"
                /\ frame'[p].err = "empty descriptor id"
                /\ pools' = pools
          /\ (pc[p] = "store" /\ pc'[p] = "resolve")
             => /\ SpecKey(frame[p].req) \in DOMAIN pools'
                /\ pools'[SpecKey(frame[p].req)] = frame[p].pool
          /\ (pc[p] = "resolve" /\ frame'[p].rm # NoResolved)
             => /\ frame'[p].retKey =
                     (IF frame[p].req.DescriptorID # ""
                      THEN frame[p].req.DescriptorID
                      ELSE Sha256Hex(frame[p].req.InlineDescriptorSet))
                /\ frame'[p].retKey \in DOMAIN pools'
      ]_vars

C4_Witness ==
    \E p, q \in Procs :
        /\ pc[p] = "Returned"
        /\ frame[p].req.DescriptorID = ""
        /\ frame[p].retKey = Sha256Hex("b1")
        /\ DOMAIN pools = {Sha256Hex("b1")}
        /\ pc[q] = "Failed"
        /\ frame[q].req.op = "Resolve"
        /\ frame[q].err = "empty descriptor id"

\* C5: every pool in the cache, and every pool a call resolves against, is
\* the complete pool of one blob; a call resolves against the pool it
\* obtained, whatever the cache holds by then.
C5_ConsistentPool ==
    [][\A p \in Procs :
          /\ \A k \in DOMAIN pools' :
                /\ WellFormed(pools'[k].src)
                /\ pools'[k] = NewInlineDescriptorPool(pools'[k].src)
          /\ pc'[p] = "resolve"
             => /\ WellFormed(frame'[p].pool.src)
                /\ frame'[p].pool = NewInlineDescriptorPool(frame'[p].pool.src)
          /\ (pc[p] = "resolve" /\ pc'[p] # "resolve")
             => LET own == PoolResolve(NewInlineDescriptorPool(frame[p].pool.src),
                                       frame[p].req.ServiceName,
                                       frame[p].req.MethodName)
                IN  /\ frame'[p].rm = own.rm
                    /\ (own.err # "" => pc'[p] = "Failed" /\ frame'[p].err = own.err)
      ]_vars

C5_Witness ==
    \E p \in Procs :
        /\ pc[p] = "Returned"
        /\ frame[p].retKey = "k"
        /\ frame[p].rm.Method.src = "b1"
        /\ pools["k"].src = "b2"

\* C6: an Invoke whose resolved method has the client-streaming or the
\* server-streaming flag set has failed with "streaming method not supported"
\* as soon as the resolver has returned the method, on the full-name path and
\* on the inline path alike, before the body is decoded or a connection made.
C6_StreamingRejected ==
    \A p \in Procs :
        (/\ frame[p].req.op = "Invoke"
         /\ pc[p] # "memo"
         /\ frame[p].rm.Method.cs \/ frame[p].rm.Method.ss)
        => /\ pc[p] = "Failed"
           /\ frame[p].err = "streaming method not supported"
           /\ frame[p].conn = ""
           /\ p \notin conns

C6_Witness ==
    \E p, q \in Procs :
        /\ pc[p] = "Failed"
        /\ frame[p].req.InlineDescriptorSet = "b2"
        /\ frame[p].rm.Method.cs
        /\ frame[p].err = "streaming method not supported"
        /\ pc[q] = "Failed"
        /\ frame[q].req.FullMethodName = <<"/", "p", ".", "S", "/", "N">>
        /\ frame[q].rm.Method.ss
        /\ frame[q].err = "streaming method not supported"

InCall == {"Calling", "CodingResponse"}

\* C7: the open connections are those of the Invoke calls that have dialled
\* and not yet returned: a call that has returned, with a response or with an
\* error, has closed its connection, and there are never more open
\* connections than calls in progress.
C7_ConnectionsClosed ==
    /\ conns = {p \in Procs : pc[p] \in InCall}
    /\ \A p \in Procs : pc[p] \in InCall => frame[p].conn = p
    /\ Cardinality(conns) <= Cardinality({p \in Procs : pc[p] \notin Idle})

C7_Witness ==
    \E p, q \in Procs :
        /\ pc[p] = "Failed"
        /\ frame[p].err = "invoke rpc"
        /\ frame[p].conn = p
        /\ pc[q] \in {"Done", "Failed"}
        /\ pc[q] = "Failed" => frame[q].err = "message to json"
        /\ frame[q].conn = q
        /\ conns = {}

\* The services of the probed pool whose short name is n.
Sharing(n) == {s \in probe.svcs : GetName(s) = n}

\* C8: for a service of the pool whose short name no other service of the
\* pool has, and a method of it, the resolution by the fully-qualified name
\* and the resolution by the short name both succeed with that method and
\* the service's fully-qualified name.
C8_ShortNameAgreesWithFQN ==
    probe.done =>
        \A svc \in probe.svcs : \A m \in svc.methods :
            (/\ Sharing(GetName(svc)) = {svc}
             /\ probe.service \in {GetFullyQualifiedName(svc), GetName(svc)}
             /\ probe.method = m.name)
            => probe.out = [err |-> "",
                            rm |-> [Method |-> MethodOf(svc, m),
                                    ServiceFQN |-> GetFullyQualifiedName(svc)],
                            names |-> {}]

C8_Witness ==
    /\ probe.done
    /\ Cardinality(probe.svcs) = 3
    /\ probe.service = <<"T">>
    /\ probe.method = <<"M">>
    /\ probe.out.err = ""
    /\ probe.out.rm.ServiceFQN = <<"p", ".", "T">>

\* C9 as stated: with two or more services of the short name N in the pool,
\* the resolution of (N, m) fails for every m with the ambiguous-service-name
\* error, which lists the fully-qualified names of all of them.
C9_AmbiguousShortName ==
    (probe.done /\ Cardinality(Sharing(probe.service)) >= 2)
    => /\ probe.out.err = "ambiguous service name"
       /\ probe.out.names = {GetFullyQualifiedName(s) : s \in Sharing(probe.service)}

\* C9 as amended: the same, when none of the services of the short name N is
\* declared without a package and m, with the spaces around it and one
\* leading "/" taken off, is not empty.
C9_AmbiguousShortNameQualified ==
    (/\ probe.done
     /\ Cardinality(Sharing(probe.service)) >= 2
     /\ \A s \in Sharing(probe.service) : s.pkg # <<>>
     /\ TrimPrefix(TrimSpace(probe.method), <<"/">>) # <<>>)
    => /\ probe.out.err = "ambiguous service name"
       /\ probe.out.rm = NoResolved
       /\ probe.out.names = {GetFullyQualifiedName(s) : s \in Sharing(probe.service)}

C9_Witness ==
    /\ probe.done
    /\ Cardinality(probe.svcs) = 3
    /\ probe.service = <<"S">>
    /\ probe.method = <<"N">>
    /\ probe.out.err = "ambiguous service name"
    /\ probe.out.names = {<<"p", ".", "S">>, <<"q", ".", "S">>}

\* Full method names without the leading "/", and without a second segment.
NoLeadingSeparator == {<<"p", ".", "S", "/", "M">>}
NoSecondSegment == {<<"/", "p", ".", "S">>}

\* C10 as stated: a call of the file-backed resolver with such a name ends
\* with the "invalid full method name" error, returns no method and caches
\* nothing.
C10_MalformedNameInvalid ==
    /\ \A p \in Procs :
          (/\ frame[p].req.FullMethodName \in NoLeadingSeparator \cup NoSecondSegment
           /\ pc[p] \in Idle)
          => /\ pc[p] = "Failed"
             /\ frame[p].err = "invalid full method name"
             /\ frame[p].rm = NoResolved
    /\ DOMAIN cache \cap (NoLeadingSeparator \cup NoSecondSegment) = {}

\* C10 as amended: a name without a second segment fails with "invalid full
\* method name" before any file is read; a name without the leading "/"
\* fails as well, with the error of the file read, of the parse or of the
\* search; in both cases no method is returned and nothing is cached.
C10_MalformedNameFails ==
    /\ \A p \in Procs :
          /\ frame[p].req.FullMethodName \in NoSecondSegment
             => /\ pc[p] = "Failed"
                /\ frame[p].err = "invalid full method name"
                /\ frame[p].rm = NoResolved
          /\ frame[p].req.FullMethodName \in NoLeadingSeparator
             => /\ pc[p] \in {"readFile", "Failed"}
                /\ pc[p] = "Failed"
                     => frame[p].err \in {"read descriptor file",
                                          "unmarshal FileDescriptorSet",
                                          "method not found in descriptor set"}
                /\ frame[p].rm = NoResolved
    /\ DOMAIN cache \cap (NoLeadingSeparator \cup NoSecondSegment) = {}

C10_Witness ==
    \E p, q \in Procs :
        /\ pc[p] = "Failed"
        /\ frame[p].req.FullMethodName \in NoLeadingSeparator
        /\ frame[p].err = "method not found in descriptor set"
        /\ pc[q] = "Failed"
        /\ frame[q].req.FullMethodName \in NoSecondSegment
        /\ frame[q].err = "invalid full method name"
        /\ cache = EmptyMap

\* The services of the probed pool that the name n names, fully or shortly.
Named(n) ==
    {s \in probe.svcs : n \in {GetFullyQualifiedName(s), GetName(s)}}

C13_RoundTripWithDefaults ==
    /\ (probe.encoded /\ probe.stage # "message")
       => /\ probe.doc.valid
          /\ Len(probe.doc.members) = Len(ScalarSchema)
          /\ \A i \in 1..Len(ScalarSchema) :
                /\ probe.doc.members[i].name = ScalarSchema[i].name
                /\ probe.doc.members[i].value.t # "null"
                /\ probe.doc.members[i].value.t = JSONType(ScalarSchema[i].type)
                /\ probe.doc.members[i].value.v
                       = Literal(ScalarSchema[i].type,
                                 GetField(probe.msg, ScalarSchema[i]))
    /\ (probe.encoded /\ probe.stage = "decoded")
       => /\ probe.back.err = ""
          /\ \A i \in 1..Len(ScalarSchema) :
                GetField(probe.back.msg, ScalarSchema[i])
                    = GetField(probe.msg, ScalarSchema[i])

C13_Witness ==
    /\ probe.encoded
    /\ probe.stage = "decoded"
    /\ DOMAIN probe.msg = {"message"}
    /\ probe.msg["message"] = "Alice"
    /\ Len(probe.doc.members) = 3
    /\ probe.doc.members[2].value.v = "0"
    /\ probe.back.err = ""
    /\ GetField(probe.back.msg, ScalarSchema[3]) = FALSE

\* C14: decoding what encodeBase64V1 made of a byte sequence gives the
\* sequence back without error; the encoded text reversed is padded base64
\* (a multiple of four characters of the alphabet, "=" only at the end);
\* the empty text decodes to nil without error; decodeRequestBody of a body
\* that is not in the encoding returns the "decode b64v1" error.
C14_Base64V1RoundTrip ==
    /\ probe.stage \in {"encoded", "roundTrip"}
       => /\ Len(probe.text) = 4 * ((Len(probe.plain) + 2) \div 3)
          /\ \A i \in 1..Len(probe.text) :
                /\ probe.text[i] # Other
                /\ probe.text[i] = Pad
                   => i <= (3 - (Len(probe.plain) % 3)) % 3
    /\ probe.stage = "roundTrip"
       => /\ probe.out.err = ""
          /\ probe.out.bytes = probe.plain
    /\ (probe.stage \in {"roundTrip", "bodyDecoded"} /\ probe.text = <<>>)
       => probe.out = Decoded("", <<>>, TRUE)
    /\ (probe.stage = "bodyDecoded" /\ probe.text \in BadBodies)
       => probe.out.err = "decode b64v1"

C14_Witness ==
    /\ probe.stage = "roundTrip"
    /\ probe.plain = <<255, 0, 1, 255>>
    /\ probe.text = <<Pad, Pad, 48, 63, 1, 0, 48, 63>>
    /\ probe.out.bytes = <<255, 0, 1, 255>>
    /\ ~probe.out.isNil

\* The response {"message": text}.
EchoResponse(text) == Object(<<Member("message", "string", text)>>)

\* C12 as stated: against a live echo instance the response's message field
\* equals m on both paths.
C12_EchoReturnsMessage ==
    \A path \in Paths :
        probe.run[path].stage \notin {"ResolvingMethod", "CodingRequest", "Calling",
                                      "CodingResponse"}
        => /\ probe.run[path].stage = "Done"
           /\ probe.run[path].out = EchoResponse(probe.m)

\* C12: Invoke of Echo with body {"message": m} ends in Done on both paths
\* with the same response; its message field equals m against an instance
\* whose Echo returns the request's message (the echoServer of the tests),
\* and is "echo: " followed by m against the server of the example.
C12_EchoRelaysMessage ==
    \A path \in Paths :
        probe.run[path].stage \notin {"ResolvingMethod", "CodingRequest", "Calling",
                                      "CodingResponse"}
        => /\ probe.run[path].stage = "Done"
           /\ probe.server = "echoServer"
              => probe.run[path].out = EchoResponse(probe.m)
           /\ probe.server = "example"
              => probe.run[path].out = EchoResponse("echo: " \o probe.m)
           /\ \A other \in Paths :
                 probe.run[other].stage = "Done"
                 => probe.run[other].out = probe.run[path].out

C12_Witness ==
    /\ probe.server = "echoServer"
    /\ probe.m = "Alice"
    /\ \A path \in Paths :
          /\ probe.run[path].stage = "Done"
          /\ probe.run[path].md.name = <<"Echo">>
          /\ probe.run[path].out = EchoResponse("Alice")

\* The locals of a call, without the history kept with them.
Locals(f) == [f EXCEPT !.expect = NoResolved, !.disturbed = FALSE]

\* Goroutine p takes a step.
Steps(p) == <<pc[p], Locals(frame[p])>>' # <<pc[p], Locals(frame[p])>>

\* C15: an Invoke dials once and calls once.  The dial is entered only from
\* the coded request and the call only from the dial, on a connection that
\* no invocation held before; a dial failure and a call failure end the
\* invocation in Failed with that error, and a failed invocation takes no
\* further step: the next step of its goroutine is a new Invoke.
C15_OneDialOneCall ==
    [][\A p \in Procs :
          Steps(p) =>
             /\ pc[p] = "Dialing"
                => \/ /\ pc'[p] = "Calling"
                      /\ frame'[p].conn \notin conns
                      /\ \A q \in Procs \ {p} : frame[q].conn # frame'[p].conn
                      /\ conns' = conns \cup {frame'[p].conn}
                   \/ /\ pc'[p] = "Failed"
                      /\ frame'[p].err = "dial"
                      /\ conns' = conns
             /\ pc[p] = "Calling"
                => \/ /\ pc'[p] = "CodingResponse"
                      /\ frame'[p].conn = frame[p].conn
                      /\ conns' = conns
                   \/ /\ pc'[p] = "Failed"
                      /\ frame'[p].err = "invoke rpc"
                      /\ frame[p].conn \notin conns'
             /\ pc'[p] = "Dialing" => pc[p] = "CodingRequest"
             /\ pc'[p] = "Calling" => pc[p] = "Dialing"
             /\ pc[p] = "Failed" => nCalls' = nCalls + 1]_vars

C15_Witness ==
    /\ pc["g1"] = "Failed"
    /\ frame["g1"].err = "invoke rpc"
    /\ pc["g2"] = "Calling"
    /\ conns = {"g2"}

\* C16: with a positive timeout every Invoke that began ends in Done or
\* Failed, whether or not the target answers the dial or the call; with a
\* timeout of zero no step is ended by a deadline.
C16_TimeoutTerminates ==
    /\ \A p \in Procs :
          (probe.timeout > 0 /\ pc[p] \notin Idle) ~> pc[p] \in {"Done", "Failed"}
    /\ [][\A p \in Procs :
             (probe.timeout = 0 /\ Steps(p))
             => frame'[p].err # "context deadline exceeded"]_vars

C16_Witness ==
    /\ probe.timeout > 0
    /\ pc["g1"] = "Failed"
    /\ frame["g1"].err = "context deadline exceeded"
    /\ pc["g2"] = "Calling"

\* C17: no step removes a key from the static method cache or from the
\* inline pool cache.
C17_CachesGrow ==
    [][/\ DOMAIN cache \subseteq DOMAIN cache'
       /\ DOMAIN pools \subseteq DOMAIN pools']_vars

C17_Witness ==
    /\ Cardinality(DOMAIN pools) = 2
    /\ Cardinality(DOMAIN cache) = 1

\* The stages of the model in which Invoke is resolving the method.
ResolvingMethod == {"index", "store", "resolve", "readFile", "memo"}

\* The stages that may follow a stage in one step.
Following(stage) ==
    CASE stage \in Idle -> ResolvingMethod \cup {"CodingRequest", "Failed"}
      [] stage \in ResolvingMethod -> ResolvingMethod \cup {"CodingRequest", "Failed"}
      [] stage = "CodingRequest" -> {"Dialing", "Failed"}
      [] stage = "Dialing" -> {"Calling", "Failed"}
      [] stage = "Calling" -> {"CodingResponse", "Failed"}
      [] stage = "CodingResponse" -> {"Done", "Failed"}

\* C18: a step of an Invoke leads from its stage to the next stage of
\* ResolvingMethod, Coding(Request), Dialing, Calling, Coding(Response),
\* Done, or to Failed; Done and Failed are left only by a new Invoke; and a
\* call that enters Dialing has a resolved method with both streaming flags
\* clear and a body that decoded into its input type.
C18_StageOrder ==
    [][\A p \in Procs :
          Steps(p) =>
             /\ pc'[p] \in Following(pc[p])
             /\ pc[p] \in Idle => nCalls' = nCalls + 1
             /\ (pc[p] \in ResolvingMethod /\ pc'[p] \in ResolvingMethod)
                => <<pc[p], pc'[p]>> \in {<<"index", "index">>, <<"index", "store">>,
                                          <<"store", "resolve">>, <<"readFile", "memo">>}
             /\ pc'[p] = "Dialing"
                => /\ frame'[p].rm.Method # NoMethod
                   /\ ~frame'[p].rm.Method.cs
                   /\ ~frame'[p].rm.Method.ss
                   /\ JSONToMessageErr(frame'[p].rm.Method, frame'[p].body) = ""]_vars

C18_Witness ==
    /\ pc["g1"] = "Done"
    /\ pc["g2"] = "Failed"
    /\ frame["g2"].err = "json to message"
    /\ frame["g2"].rm.Method # NoMethod

\* The pool parsed from the bytes of p's request.
OwnPool(p) == NewInlineDescriptorPool(frame[p].req.InlineDescriptorSet)

\* C19: a call that missed parses its own bytes; its write puts the pool of
\* its bytes under its key, whatever another call wrote there since the
\* miss, and leaves the pools other calls hold alone; an entry changes by
\* such a write only, so that it is the pool of the last writer; and the
\* call resolves against the pool of its own bytes.
C19_BothParseLastWriterWins ==
    [][\A p \in Procs :
          /\ pc'[p] \in {"index", "store"}
             => frame'[p].pool.src = frame'[p].req.InlineDescriptorSet
          /\ (pc[p] = "store" /\ pc'[p] = "resolve")
             => /\ pools'[frame[p].key] = OwnPool(p)
                /\ frame'[p].pool = OwnPool(p)
                /\ \A q \in Procs \ {p} : frame'[q].pool = frame[q].pool
          /\ (pc[p] = "resolve" /\ frame[p].pool = OwnPool(p) /\ pc'[p] # "resolve")
             => LET own == PoolResolve(OwnPool(p), frame[p].req.ServiceName,
                                       frame[p].req.MethodName)
                IN  /\ own.err = "" => pc'[p] = "Returned" /\ frame'[p].rm = own.rm
                    /\ own.err # "" => pc'[p] = "Failed" /\ frame'[p].err = own.err
          /\ \A k \in DOMAIN pools' :
                (k \notin DOMAIN pools \/ pools'[k] # pools[k])
                => \E q \in Procs :
                      /\ pc[q] = "store"
                      /\ pc'[q] = "resolve"
                      /\ frame[q].key = k
                      /\ pools'[k] = OwnPool(q)
      ]_vars

C19_Witness ==
    /\ nCalls = 2
    /\ pc["g1"] = "Returned"
    /\ pc["g2"] = "Returned"
    /\ frame["g1"].retKey = "k"
    /\ frame["g2"].retKey = "k"
    /\ frame["g1"].rm.Method.src = "b1"
    /\ frame["g2"].rm.Method.src = "b2"
    /\ pools["k"] = NewInlineDescriptorPool("b1")

\* Goroutine p calls MethodResolver.Resolve(name).
Resolves(p, name) ==
    /\ pc[p] \in Idle
    /\ Steps(p)
    /\ frame'[p].req.FullMethodName = name

\* C20 as stated: a name once memoized keeps its descriptor, a Resolve of it
\* returns that descriptor at once, and a Resolve of any string that is not
\* memoized goes on to read the file.
C20_HitSameMissRereads ==
    [][/\ \A n \in DOMAIN cache : cache'[n] = cache[n]
       /\ \A p \in Procs : \A name \in FullMethodNames :
             Resolves(p, name) =>
                IF name \in DOMAIN cache
                THEN /\ pc'[p] = "Returned"
                     /\ frame'[p].rm.Method = cache[name]
                ELSE pc'[p] = "readFile"]_vars

\* C20: a Resolve of a memoized name returns the descriptor memoized under
\* it at once, without a read; the entry of a name changes only by the write
\* of a call for that name that had missed, to what that call found in the
\* file it read; a Resolve of a string that is not memoized goes on to read
\* the file if the string has the two segments of a full method name, and
\* fails without a read if not; the file is parsed only if it was read.
C20_HitNoReadMissRereads ==
    [][/\ \A n \in DOMAIN cache :
             cache'[n] # cache[n]
             => \E q \in Procs :
                   /\ pc[q] = "memo"
                   /\ Steps(q)
                   /\ frame[q].req.FullMethodName = n
                   /\ cache'[n] = frame[q].rm.Method
       /\ \A p \in Procs : \A name \in FullMethodNames :
             Resolves(p, name) =>
                /\ cache' = cache
                /\ IF name \in DOMAIN cache
                   THEN /\ pc'[p] = "Returned"
                        /\ frame'[p].rm.Method = cache[name]
                   ELSE IF ParseFullMethodName(name).err = ""
                   THEN pc'[p] = "readFile"
                   ELSE /\ pc'[p] = "Failed"
                        /\ frame'[p].err = "invalid full method name"
       /\ \A p \in Procs :
             (pc[p] = "readFile" /\ Steps(p))
             => \/ pc'[p] = "memo" /\ frame'[p].rm.Method.src \in {"b1", "b2"}
                \/ /\ pc'[p] = "Failed"
                   /\ frame'[p].err \in {"read descriptor file",
                                         "unmarshal FileDescriptorSet",
                                         "method not found in descriptor set"}]_vars

C20_Witness ==
    /\ pc["g1"] = "Returned"
    /\ frame["g1"].req.FullMethodName = <<"/", "p", ".", "S", "/", "M">>
    /\ frame["g1"].rm.Method.src = "b1"
    /\ cache[<<"/", "p", ".", "S", "/", "M">>].src = "b2"
    /\ pc["g2"] = "Failed"
    /\ frame["g2"].req.FullMethodName = <<"p", ".", "S", "/", "M">>
    /\ frame["g2"].err = "method not found in descriptor set"

\* C21: every entry of the static cache maps its key to a method whose
\* name, rebuilt as "/" + service-FQN + "/" + method-name, is the key; a
\* Resolve that fails has written nothing: the step that fails changes no
\* entry and is not the step after the write, and the cache changes only in
\* the step of a call that returns its method.
C21_KeysNameTheirMethods ==
    /\ [](\A k \in DOMAIN cache :
             /\ cache[k] # NoMethod
             /\ <<"/">> \o cache[k].svc \o <<"/">> \o cache[k].name = k)
    /\ [][\A p \in Procs :
             /\ (Steps(p) /\ pc'[p] = "Failed")
                => /\ cache' = cache
                   /\ pc[p] # "memo"
                   /\ frame'[p].err \in {"invalid full method name",
                                         "read descriptor file",
                                         "unmarshal FileDescriptorSet",
                                         "method not found in descriptor set"}
             /\ cache' # cache
                => \E q \in Procs : pc[q] = "memo" /\ pc'[q] = "Returned"]_vars

C21_Witness ==
    /\ DOMAIN cache = {<<"/", "p", ".", "S", "/", "M">>, <<"/", "p", ".", "S", "/", "N">>}
    /\ pc["g1"] = "Failed"
    /\ frame["g1"].err = "read descriptor file"
    /\ pc["g2"] = "Failed"
    /\ frame["g2"].err = "method not found in descriptor set"

\* The errors of InlineDescriptorPool.Resolve.
LookupErrors ==
    {"missing service or method", "service not found", "ambiguous service name",
     "method not found"}

\* C24: the pool cache is written in the step that follows a successful
\* parse of the call's bytes, and in no other: a call whose bytes do not
\* parse fails leaving the cache as it is; a call that parsed stores the
\* pool of its bytes under its key before it looks the method up; a lookup
\* that then fails returns its error and leaves the cache as it is, the
\* stored pool included; and an identifier-only call that finds a pool under
\* its key resolves in that pool, succeeding for a method that is in it.
C24_WritesWhenParsed ==
    [][\A p \in Procs :
          LET r == frame'[p].req
              k == DeriveKey(r.InlineDescriptorSet, r.DescriptorID)
          IN  /\ (pc[p] \in Idle /\ Steps(p) /\ k # "" /\ k \notin DOMAIN pools)
                 => /\ pools' = pools
                    /\ IF r.InlineDescriptorSet = ""
                       THEN pc'[p] = "Failed"
                       ELSE IF ParseErr(r.InlineDescriptorSet) # ""
                       THEN /\ pc'[p] = "Failed"
                            /\ frame'[p].err = ParseErr(r.InlineDescriptorSet)
                       ELSE pc'[p] \in {"index", "store"}
              /\ (pc[p] \in Idle /\ Steps(p) /\ k \in DOMAIN pools)
                 => /\ pools' = pools
                    /\ pc'[p] = "resolve"
                    /\ frame'[p].pool = pools[k]
              /\ (pc[p] = "index" /\ Steps(p)) => pc'[p] \in {"index", "store"}
              /\ (pc[p] = "store" /\ Steps(p))
                 => /\ pc'[p] = "resolve"
                    /\ ParseErr(frame[p].req.InlineDescriptorSet) = ""
                    /\ pools' = MapPut(pools, frame[p].key, OwnPool(p))
              /\ (pc[p] = "resolve" /\ Steps(p))
                 => LET res == PoolResolve(frame[p].pool, frame[p].req.ServiceName,
                                           frame[p].req.MethodName)
                    IN  /\ pools' = pools
                        /\ res.err = "" => pc'[p] = "Returned" /\ frame'[p].rm = res.rm
                        /\ res.err # ""
                           => /\ pc'[p] = "Failed"
                              /\ frame'[p].err = res.err
                              /\ res.err \in LookupErrors
              /\ pools' # pools => \E q \in Procs : pc[q] = "store" /\ Steps(q)]_vars

C24_Witness ==
    /\ pc["g1"] = "Failed"
    /\ frame["g1"].req.InlineDescriptorSet = "b2"
    /\ frame["g1"].err = "ambiguous service name"
    /\ pools["k"] = NewInlineDescriptorPool("b2")
    /\ pc["g2"] = "Returned"
    /\ frame["g2"].req.InlineDescriptorSet = ""
    /\ frame["g2"].req.DescriptorID = "k"
    /\ frame["g2"].rm.Method.src = "b2"
    /\ nCalls = 2

C25_CachesPerInvoker ==
    [][/\ \A p \in Procs : \A e \in {"A", "B"} :
             (Steps(p) /\ probe.at[p] # e) => Engine(e)' = Engine(e)
       /\ (\A p \in Procs : ~Steps(p))
          => \A e \in {"A", "B"} : Engine(e)' = Engine(e)
       /\ \A p \in Procs :
             LET r == frame'[p].req
             IN  (/\ pc[p] \in Idle
                  /\ Steps(p)
                  /\ r.InlineDescriptorSet = ""
                  /\ r.DescriptorID # ""
                  /\ r.DescriptorID \notin DOMAIN Engine(probe.at[p]).pools)
                 => /\ pc'[p] = "Failed"
                    /\ frame'[p].err = "descriptor not found for id"]_vars

C25_Witness ==
    /\ "k" \in DOMAIN Engine("A").pools
    /\ Engine("B").pools = EmptyMap
    /\ DOMAIN Engine("A").cache = {}
    /\ DOMAIN Engine("B").cache # {}
    /\ pc["g2"] = "Failed"
    /\ frame["g2"].req.DescriptorID = "k"
    /\ frame["g2"].err = "descriptor not found for id"

====
